---- MODULE Spec2Model ----
(***************************************************************************)
(* Verification model of the OTA device synchronisation engine             *)
(* (python/modular-version/v0.1): the retry policy, the file lock, the     *)
(* atomic operation, the backup store, the repository sync and the fleet   *)
(* supervisor.  Each component has its own variables, its own initial      *)
(* predicate and its own specification; a specification leaves the other   *)
(* components' variables at their idle values.                             *)
(***************************************************************************)
EXTENDS Integers, Sequences, FiniteSets, TLC

VARIABLES
  \* ---- RetryUtils.with_retries (utils/retry_utils.py) ----
  r_max,        \* max_attempts of the decorator
  r_delay,      \* delay of the decorator
  r_attempt,    \* the loop variable `attempt`
  r_pc,         \* "loop" | "returned" | "raised_retry" | "raised_other"
  r_outcomes,   \* what each invocation of func did, in order
  r_last,       \* last_exception
  r_waits       \* the arguments of time.sleep, in order

retryVars == <<r_max, r_delay, r_attempt, r_pc, r_outcomes, r_last, r_waits>>

VARIABLES
  \* ---- device_api.clone_or_pull_repo under AtomicUtils.file_lock ----
  s_upstream,   \* the commit origin/<branch> points to on the remote
  s_gitdir,     \* shared_repo/.git: "absent" | "empty" (a bare directory) | "repo"
  s_lock,       \* shared_repo/.git/cascade.lock: "none" or the owner written in it
  s_head,       \* the commit checked out in the mirror (0: none)
  s_remote,     \* the mirror's origin/<branch> ref (0: none)
  s_ws,         \* per device: the commit whose src/templates the workspace holds (0: none)
  s_regsha,     \* per device: last_commit_sha in the registry (0: null)
  s_pc,         \* per caller: its position in clone_or_pull_repo
  s_dev,        \* per caller: device_id of the call
  s_acq,        \* per caller: `acquired` of file_lock
  s_waited,     \* per caller: poll intervals slept in file_lock
  s_changed,    \* per caller: changes_detected
  s_exc,        \* per caller: an exception is propagating
  s_temp,       \* per caller: content staged in temp_dir/templates (0: none)
  s_result,     \* per caller: the value the call returned
  s_callfresh,  \* per caller: the workspace held the upstream content when the call
                \* began and no commit has been pushed since
  s_old         \* per caller: what its rmtree(dst_templates) removed (0: nothing)

syncVars == <<s_upstream, s_gitdir, s_lock, s_head, s_remote, s_ws, s_regsha,
              s_pc, s_dev, s_acq, s_waited, s_changed, s_exc, s_temp, s_result,
              s_callfresh,
             s_old>>

VARIABLES
  \* ---- AtomicUtils.atomic_operation (utils/atomic_utils.py) ----
  a_arg,        \* a work_dir argument was given
  a_work,       \* content of work_dir (0: the directory does not exist)
  a_entry,      \* content of work_dir when the context manager was entered
  a_tempdir,    \* the TemporaryDirectory exists
  a_staged,     \* content of temp_dir/backup on disk (0: no such directory)
  a_tempbackup, \* the local temp_backup is set
  a_pc,         \* position in the context manager
  a_bodyraised, \* the body raised
  a_err,        \* what reaches the caller: "none" | "AtomicOperationError"
  a_rollback    \* what the rollback logged: "none" | "rolled_back" | "failed"

atomVars == <<a_arg, a_work, a_entry, a_tempdir, a_staged, a_tempbackup, a_pc,
              a_bodyraised, a_err, a_rollback>>

VARIABLES
  \* ---- utils/workspace_backup_utils.py and utils/git_utils.py ----
  b_clock,      \* datetime.now(), in seconds
  b_ws,         \* workspaces/<device>: [content (0: absent), git (.git inside), mode]
  b_store,      \* device_backups/<device>: timestamp -> content of backup_<timestamp> (0: none)
  b_pc,         \* position in create_backup
  b_ts,         \* create_backup: timestamp
  b_list,       \* create_backup: the sorted list `backups`
  b_path,       \* what create_backup returned: a timestamp, 0 for None
  b_taken,      \* timestamps of the backups create_backup has returned
  b_count,      \* how many backups create_backup has returned (counted up to KeepBackups + 1)
  b_rpath,      \* restore_backup called on its own: backup_path (0: no such call under way)
  g_pc,         \* position in git_utils.clone_or_pull_repo
  g_attempt,    \* `attempt` of its with_retries wrapper
  g_mirror,     \* shared_repos/<device>: "absent" | "repo"
  g_head,       \* the tree checked out in the mirror
  g_upstream,   \* the tree at origin/<branch>
  g_bpath,      \* clone_or_pull_repo: backup_path (0: None)
  g_before,     \* b_ws when the current call began
  g_verified,   \* what verify_device_changes returned in the current call
  g_restored,   \* what restore_backup returned in the current call
  g_outcome,    \* how the last call ended
  f_status,     \* the device's status in the registry
  f_pc,         \* position in workspace_utils.force_refresh
  f_attempt,    \* `attempt` of force_refresh's with_retries wrapper
  f_bodies      \* executions of clone_or_pull_repo's body in the force_refresh call under way

refreshVars == <<f_status, f_pc, f_attempt, f_bodies>>
gitVars == <<b_clock, b_ws, b_store, b_pc, b_ts, b_list, b_path, b_taken, b_count,
             b_rpath,
             g_pc, g_attempt, g_mirror, g_head, g_upstream, g_bpath, g_before,
             g_verified, g_restored, g_outcome, f_status, f_pc, f_attempt, f_bodies>>

VARIABLES
  \* ---- run_gitlab_controller.py (the supervisor) ----
  p_registry,   \* the devices table: device -> github_token (0: null, or no such row)
  p_running,    \* running_processes: device -> [pid, token] (pid 0: no entry)
  p_alive,      \* the controller processes alive in the OS: records [pid, dev]
  p_nextpid,    \* the pid the next Popen gets
  p_pc,         \* position in poll_and_update
  p_current,    \* current_devices of the pass under way
  p_todo,       \* the devices the loop under way has still to visit
  p_observed,   \* the processes check_process_status found terminated in this pass
  p_stopped,    \* the devices stop_gitlab_controller stopped in this pass
  p_failed,     \* a start or a stop failed in this pass
  p_pollfailed  \* get_devices_with_github caught an exception in this pass

supVars == <<p_registry, p_running, p_alive, p_nextpid, p_pc, p_current, p_todo,
             p_observed, p_stopped, p_failed, p_pollfailed>>

VARIABLES
  \* ---- utils/device_manager.py and device_api.py: start and stop ----
  m_status,      \* the devices table: device -> status
  m_configured,  \* the devices get_devices_with_github returns
  m_running,     \* utils/device_manager.py running_controllers
  m_apirunning,  \* device_api.py running_controllers
  m_last,        \* the last call: [op, dev]
  m_result,      \* what the last call returned
  m_effects,     \* what the last call did besides returning
  m_dbfail,      \* a registry write of the last call failed
  m_lastok       \* per device, the last device_manager call that returned

mgrVars == <<m_status, m_configured, m_running, m_apirunning, m_last, m_result,
             m_effects, m_dbfail, m_lastok>>

VARIABLES
  \* ---- run_gitlab_controller.py stop_gitlab_controller, step by step ----
  k_entries,    \* the devices with an entry in running_processes
  k_proc,       \* device -> state of its controller process
  k_logs,       \* device -> the log file handles are open
  k_work,       \* device -> process.work_dir exists on disk
  k_pc,         \* position in stop_gitlab_controller
  k_dev,        \* the device being stopped
  k_events,     \* what the call under way has done so far, in order
  k_timedout,   \* wait(timeout=5) raised TimeoutExpired in this call
  k_rmfailed,   \* shutil.rmtree(process.work_dir) raised in this call
  k_result,     \* what the last start_gitlab_controller call returned
  k_seen        \* kind of start call -> the values such calls have returned

startVars == <<k_result, k_seen>>
stopVars == <<k_entries, k_proc, k_logs, k_work, k_pc, k_dev, k_events, k_timedout,
              k_rmfailed, k_result, k_seen>>

VARIABLES
  \* ---- utils/git_utils.py: verify_device_changes and its call site ----
  v_tree,       \* repo_dir: which of package.json, requirements.txt, index.html, config.json it holds
  v_gitdir,     \* repo_dir/.git exists
  v_status,     \* `git status`: "ok" | "nonzero" (CalledProcessError) | "oserror" (cannot be run)
  v_readable,   \* os.access(file, R_OK) of the required files
  v_bpath,      \* clone_or_pull_repo: backup_path is not None
  v_pc,         \* "off" | "call" | "returned" | "synced" | "over"
  v_result,     \* what verify_device_changes delivered: "none" | "True" | "False" | "raised"
  v_restore,    \* the function that called restore_backup: "none" | "clone_or_pull_repo"
  v_syncout     \* how clone_or_pull_repo ended: "none" | "returned" | "raised"

verifyVars == <<v_tree, v_gitdir, v_status, v_readable, v_bpath, v_pc, v_result,
                v_restore, v_syncout>>

VARIABLES
  \* ---- final-device-script.py: DeviceManager's update loop ----
  u_github,     \* the commit at the head of the branch on GitHub (its sha, and the file's content)
  u_known,      \* devices.last_commit_sha of this device (0: null)
  u_local,      \* the content of the monitored file on the device (0: no file)
  u_pc,         \* "off" | "sleep" | "checked"
  u_updates     \* updates[file_path] as check_github_updates returned it

updVars == <<u_github, u_known, u_local, u_pc, u_updates>>

VARIABLES
  \* ---- operations that validate their device ID ----
  i_op,         \* the operation called ("none": no call under way)
  i_id,         \* its device_id argument, a sequence of characters
  i_pc,         \* "off" | "idle" | "validate" | "except" | "returned" | "raised"
  i_attempt,    \* `attempt` of the operation's own with_retries wrapper
  i_inner,      \* `attempt` of update_device_status called from force_refresh's except clause
  i_calls,      \* how many times validate_input ran in this call
  i_slept,      \* the seconds spent in time.sleep in this call
  i_writes,     \* the registry writes of this call
  i_err         \* what reached the caller: "none" | "ValueError" | "RetryError"

valVars == <<i_op, i_id, i_pc, i_attempt, i_inner, i_calls, i_slept, i_writes, i_err>>

VARIABLES
  \* ---- the writes to the devices table ----
  w_now,        \* the wall-clock time
  w_rows        \* devices: device -> [status, sha (last_commit_sha, 0: null), updated_at]

regVars == <<w_now, w_rows>>

\* GitLab monitor loop (templates/gitlab-device-script.py GitLabMonitor) and
\* the start of GitLabController.run
VARIABLES
  c_kind,     \* which program runs: "monitor" or "controller"
  c_pc,       \* position of the program
  c_remote,   \* latest commit of the file on the GitLab branch
  c_known,    \* content of the .last_commit file, 0 when the file is absent
  c_latest,   \* local variable latest_commit, 0 for None
  c_clone,    \* file version in the clone directory, 0 when absent
  c_file,     \* file version at the destination path, 0 when absent
  c_status,   \* devices.status of this device in the registry
  c_sha,      \* devices.last_commit_sha of this device in the registry
  c_events    \* steps taken since the loop last slept, in order

ctlVars == <<c_kind, c_pc, c_remote, c_known, c_latest, c_clone, c_file, c_status, c_sha, c_events>>

\* Start requests: app.py start_controller / run_controller and
\* device_api.py start_device, each request on its own thread
VARIABLES
  q_server,       \* which server handles the requests: "app" or "api"
  q_pc,           \* per request: position of its handler
  q_answer,       \* per request: the response sent, "none" before it
  q_thread,       \* per request: state of the controller thread it started
  q_controllers,  \* app.py: requests whose controller is in `controllers`
  q_running       \* device_api.py: TRUE when the device is in running_controllers

startReqVars == <<q_server, q_pc, q_answer, q_thread, q_controllers, q_running>>

\* The pruning loop of create_backup
VARIABLES
  x_dirs,       \* the backup directories under backups_dir (timestamps)
  x_locked,     \* the directories on which shutil.rmtree raises
  x_list,       \* the local list `backups`
  x_pc,         \* position in create_backup: "idle", "loop", "ret"
  x_warned      \* 'Failed to remove old backup' was logged in this call

pruneVars == <<x_dirs, x_locked, x_list, x_pc, x_warned>>

\* utils/workspace_utils.py force_refresh and the status writes it makes
VARIABLES
  h_pc,        \* position in force_refresh and its with_retries wrapper
  h_attempt,   \* `attempt` of the wrapper
  h_status,    \* devices.status of the device in the registry
  h_updating,  \* an UPDATING write of this call reached the registry
  h_lastatt,   \* the status of the last update_device_status call of this call
  h_lastok     \* the status of the last such call that returned

refreshStatusVars == <<h_pc, h_attempt, h_status, h_updating, h_lastatt, h_lastok>>

vars == <<retryVars, syncVars, atomVars, gitVars, supVars, mgrVars, stopVars, verifyVars, updVars, valVars, regVars, ctlVars, startReqVars, pruneVars, refreshStatusVars>>

\* What each component's actions leave alone
RetryOthers == <<syncVars, atomVars, gitVars, supVars, mgrVars, stopVars, verifyVars, updVars, valVars, regVars, ctlVars, startReqVars, pruneVars, refreshStatusVars>>
SyncOthers == <<retryVars, atomVars, gitVars, supVars, mgrVars, stopVars, verifyVars, updVars, valVars, regVars, ctlVars, startReqVars, pruneVars, refreshStatusVars>>
AtomOthers == <<retryVars, syncVars, gitVars, supVars, mgrVars, stopVars, verifyVars, updVars, valVars, regVars, ctlVars, startReqVars, pruneVars, refreshStatusVars>>
GitOthers == <<retryVars, syncVars, atomVars, supVars, mgrVars, stopVars, verifyVars, updVars, valVars, regVars, ctlVars, startReqVars, pruneVars, refreshStatusVars>>
SupOthers == <<retryVars, syncVars, atomVars, gitVars, mgrVars, stopVars, verifyVars, updVars, valVars, regVars, ctlVars, startReqVars, pruneVars, refreshStatusVars>>
MgrOthers == <<retryVars, syncVars, atomVars, gitVars, supVars, stopVars, verifyVars, updVars, valVars, regVars, ctlVars, startReqVars, pruneVars, refreshStatusVars>>
StopOthers == <<retryVars, syncVars, atomVars, gitVars, supVars, mgrVars, verifyVars, updVars, valVars, regVars, ctlVars, startReqVars, pruneVars, refreshStatusVars>>
VerifyOthers == <<retryVars, syncVars, atomVars, gitVars, supVars, mgrVars, stopVars, updVars, valVars, regVars, ctlVars, startReqVars, pruneVars, refreshStatusVars>>
UpdOthers == <<retryVars, syncVars, atomVars, gitVars, supVars, mgrVars, stopVars, verifyVars, valVars, regVars, ctlVars, startReqVars, pruneVars, refreshStatusVars>>
ValOthers == <<retryVars, syncVars, atomVars, gitVars, supVars, mgrVars, stopVars, verifyVars, updVars, regVars, ctlVars, startReqVars, pruneVars, refreshStatusVars>>
RegOthers == <<retryVars, syncVars, atomVars, gitVars, supVars, mgrVars, stopVars, verifyVars, updVars, valVars, ctlVars, startReqVars, pruneVars, refreshStatusVars>>
CtlOthers == <<retryVars, syncVars, atomVars, gitVars, supVars, mgrVars, stopVars, verifyVars, updVars, valVars, regVars, startReqVars, pruneVars, refreshStatusVars>>
StartReqOthers == <<retryVars, syncVars, atomVars, gitVars, supVars, mgrVars, stopVars, verifyVars, updVars, valVars, regVars, ctlVars, pruneVars, refreshStatusVars>>
PruneOthers == <<retryVars, syncVars, atomVars, gitVars, supVars, mgrVars, stopVars, verifyVars, updVars, valVars, regVars, ctlVars, startReqVars, refreshStatusVars>>
RefreshStatusOthers == <<retryVars, syncVars, atomVars, gitVars, supVars, mgrVars, stopVars, verifyVars, updVars, valVars, regVars, ctlVars, startReqVars, pruneVars>>

----------------------------------------------------------------------------
(* Bounds of the model *)

MaxAttempts == 4     \* the largest max_attempts explored
MaxDelay == 2        \* the largest delay explored
MaxCommit == 2       \* upstream commits are numbered 1..MaxCommit
MaxContent == 3      \* directory contents are numbered 1..MaxContent
MaxTime == 6         \* timestamps are 1..MaxTime
MaxWsContent == 2    \* workspace contents are numbered 1..MaxWsContent
MaxPid == 3          \* controller processes spawned in a run
MaxToken == 2        \* github_token values are 1..MaxToken
LockTimeoutPolls == 0  \* poll intervals that fit in the lock timeout

----------------------------------------------------------------------------
(* RetryUtils.with_retries                                                  *)

RetryableErrors == {"e1", "e2"}       \* instances of `exceptions`
OtherErrors == {"fatal"}              \* exceptions not in `exceptions`
FuncOutcomes == {"ok"} \cup RetryableErrors \cup OtherErrors

RECURSIVE Pow2(_)
Pow2(k) == IF k = 0 THEN 1 ELSE 2 * Pow2(k - 1)

WaitTimeLinear(delay, attempt) == delay * (attempt + 1)

\* wait_time = delay * (2 ** attempt)
WaitTime(delay, attempt) == delay * Pow2(attempt)

InRangeOffByOne(attempt, max_attempts) == attempt <= max_attempts

\* `for attempt in range(max_attempts)`: the loop body runs while this holds
InRange(attempt, max_attempts) == attempt < max_attempts

\* `if attempt < max_attempts - 1`: a wait follows the failed attempt
HasNextAttempt(attempt, max_attempts) == attempt < max_attempts - 1

RetryIdle ==
  /\ r_max = 0 /\ r_delay = 0 /\ r_attempt = 0 /\ r_pc = "off"
  /\ r_outcomes = <<>> /\ r_last = "none" /\ r_waits = <<>>

RetryInit ==
  /\ r_max \in 0..MaxAttempts
  /\ r_delay \in 1..MaxDelay
  /\ r_attempt = 0
  /\ r_pc = "loop"
  /\ r_outcomes = <<>>
  /\ r_last = "none"
  /\ r_waits = <<>>

\* One iteration of the for loop: func is invoked and returns
RetryAttemptOk ==
  /\ r_pc = "loop"
  /\ InRange(r_attempt, r_max)
  /\ r_outcomes' = Append(r_outcomes, "ok")
  /\ r_pc' = "returned"
  /\ UNCHANGED <<r_max, r_delay, r_attempt, r_last, r_waits>>
  /\ UNCHANGED RetryOthers

\* One iteration: func raises an exception the `except exceptions` clause catches
RetryAttemptFails ==
  /\ r_pc = "loop"
  /\ InRange(r_attempt, r_max)
  /\ \E e \in RetryableErrors :
       /\ r_outcomes' = Append(r_outcomes, e)
       /\ r_last' = e
  /\ r_waits' = IF HasNextAttempt(r_attempt, r_max)
                THEN Append(r_waits, WaitTime(r_delay, r_attempt))
                ELSE r_waits
  /\ r_attempt' = r_attempt + 1
  /\ UNCHANGED <<r_max, r_delay, r_pc>>
  /\ UNCHANGED RetryOthers

\* One iteration: func raises an exception that is not caught: it propagates
RetryAttemptPropagates ==
  /\ r_pc = "loop"
  /\ InRange(r_attempt, r_max)
  /\ \E e \in OtherErrors : r_outcomes' = Append(r_outcomes, e)
  /\ r_pc' = "raised_other"
  /\ UNCHANGED <<r_max, r_delay, r_attempt, r_last, r_waits>>
  /\ UNCHANGED RetryOthers

\* The loop is over: raise RetryError(..., last_exception)
RetryExhausted ==
  /\ r_pc = "loop"
  /\ ~InRange(r_attempt, r_max)
  /\ r_pc' = "raised_retry"
  /\ UNCHANGED <<r_max, r_delay, r_attempt, r_outcomes, r_last, r_waits>>
  /\ UNCHANGED RetryOthers

NextRetry ==
  \/ RetryAttemptOk
  \/ RetryAttemptFails
  \/ RetryAttemptPropagates
  \/ RetryExhausted

----------------------------------------------------------------------------
(* device_api.clone_or_pull_repo, with AtomicUtils.file_lock inlined.       *)
(* Callers are the threads of the API server (the monitor thread and the    *)
(* request handlers); each call is for one device.  All devices share       *)
(* get_shared_repo_dir() and therefore one lock file.                       *)

Callers == {"t1", "t2"}
SyncDevices == {"d1"}

\* Positions between `with file_lock(...)` and the release in its finally
InLockBody == {"branch", "config", "fetch", "reset", "clone", "revparse"}

\* `os.path.exists(lock_file)` in the while loop of file_lock
LockFileExists == s_lock # "none"

LockTimesOutLate(waited) == waited > LockTimeoutPolls + 1

\* `time.time() - start_time > timeout`
LockTimedOut(waited) == waited > LockTimeoutPolls

ReleasedOnSuccessOnly(lock, acquired, raised) ==
  IF acquired /\ ~raised /\ lock # "none" THEN "none" ELSE lock

\* file_lock's finally clause, run whether or not the body raised:
\* `if acquired and os.path.exists(lock_file): os.remove(lock_file)`
ReleasedLock(lock, acquired, raised) ==
  IF acquired /\ lock # "none" THEN "none" ELSE lock

\* `os.path.exists(git_dir)` in clone_or_pull_repo
MirrorHasGitDir == s_gitdir # "absent"

\* The flag the pull branch leaves in changes_detected (device_api.py:745)
PullChangesDetected(head_before, head_after) == TRUE

SyncIdle ==
  /\ s_upstream = 0 /\ s_gitdir = "absent" /\ s_lock = "none"
  /\ s_head = 0 /\ s_remote = 0
  /\ s_ws = [d \in SyncDevices |-> 0]
  /\ s_regsha = [d \in SyncDevices |-> 0]
  /\ s_pc = [p \in Callers |-> "off"]
  /\ s_dev = [p \in Callers |-> "d1"]
  /\ s_acq = [p \in Callers |-> FALSE]
  /\ s_waited = [p \in Callers |-> 0]
  /\ s_changed = [p \in Callers |-> FALSE]
  /\ s_exc = [p \in Callers |-> FALSE]
  /\ s_temp = [p \in Callers |-> 0]
  /\ s_result = [p \in Callers |-> FALSE]
  /\ s_callfresh = [p \in Callers |-> FALSE]
  /\ s_old = [p \in Callers |-> 0]

\* The server starts with no mirror, or with a mirror left by an earlier run
SyncInit ==
  /\ s_upstream = 1
  /\ \/ s_gitdir = "absent" /\ s_head = 0 /\ s_remote = 0
     \/ s_gitdir = "repo" /\ s_head = 1 /\ s_remote = 1
  /\ s_lock = "none"
  /\ s_ws = [d \in SyncDevices |-> 0]
  /\ s_regsha = [d \in SyncDevices |-> 0]
  /\ s_pc = [p \in Callers |-> "idle"]
  /\ s_dev = [p \in Callers |-> "d1"]
  /\ s_acq = [p \in Callers |-> FALSE]
  /\ s_waited = [p \in Callers |-> 0]
  /\ s_changed = [p \in Callers |-> FALSE]
  /\ s_exc = [p \in Callers |-> FALSE]
  /\ s_temp = [p \in Callers |-> 0]
  /\ s_result = [p \in Callers |-> FALSE]
  /\ s_callfresh = [p \in Callers |-> FALSE]
  /\ s_old = [p \in Callers |-> 0]

\* A commit is pushed to the remote branch
UpstreamPush ==
  /\ s_upstream < MaxCommit
  /\ s_upstream' = s_upstream + 1
  /\ s_callfresh' = [p \in Callers |-> FALSE]
  /\ UNCHANGED <<s_gitdir, s_lock, s_head, s_remote, s_ws, s_regsha, s_pc, s_dev,
                 s_acq, s_waited, s_changed, s_exc, s_temp, s_result>>
  /\ UNCHANGED s_old
  /\ UNCHANGED SyncOthers

\* Entry of clone_or_pull_repo up to the first poll of file_lock
SyncCall(p, d) ==
  /\ s_pc[p] = "idle"
  /\ s_pc' = [s_pc EXCEPT ![p] = "poll"]
  /\ s_dev' = [s_dev EXCEPT ![p] = d]
  /\ s_acq' = [s_acq EXCEPT ![p] = FALSE]
  /\ s_waited' = [s_waited EXCEPT ![p] = 0]
  /\ s_changed' = [s_changed EXCEPT ![p] = FALSE]
  /\ s_exc' = [s_exc EXCEPT ![p] = FALSE]
  /\ s_temp' = [s_temp EXCEPT ![p] = 0]
  /\ s_result' = [s_result EXCEPT ![p] = FALSE]
  /\ s_callfresh' = [s_callfresh EXCEPT ![p] =
                       s_gitdir = "repo" /\ s_head = s_upstream /\ s_ws[d] = s_upstream]
  /\ UNCHANGED <<s_upstream, s_gitdir, s_lock, s_head, s_remote, s_ws, s_regsha>>
  /\ s_old' = [s_old EXCEPT ![p] = 0]
  /\ UNCHANGED SyncOthers

\* file_lock: one evaluation of `while os.path.exists(lock_file)`
LockPoll(p) ==
  /\ s_pc[p] = "poll"
  /\ IF LockFileExists
     THEN IF LockTimedOut(s_waited[p])
          THEN \* TimeoutError; finally finds acquired = False; the caller returns False
               /\ s_pc' = [s_pc EXCEPT ![p] = "done"]
               /\ s_exc' = [s_exc EXCEPT ![p] = TRUE]
               /\ UNCHANGED s_waited
          ELSE \* time.sleep(0.5)
               /\ s_waited' = [s_waited EXCEPT ![p] = @ + 1]
               /\ UNCHANGED <<s_pc, s_exc>>
     ELSE /\ s_pc' = [s_pc EXCEPT ![p] = "create"]
          /\ UNCHANGED <<s_waited, s_exc>>
  /\ UNCHANGED <<s_upstream, s_gitdir, s_lock, s_head, s_remote, s_ws, s_regsha, s_dev,
                 s_acq, s_changed, s_temp, s_result, s_callfresh>>
  /\ UNCHANGED s_old
  /\ UNCHANGED SyncOthers

\* file_lock: makedirs(dirname(lock_file)); open(lock_file, 'w'); acquired = True
LockCreate(p) ==
  /\ s_pc[p] = "create"
  /\ s_gitdir' = IF s_gitdir = "absent" THEN "empty" ELSE s_gitdir
  /\ s_lock' = p
  /\ s_acq' = [s_acq EXCEPT ![p] = TRUE]
  /\ s_pc' = [s_pc EXCEPT ![p] = "branch"]
  /\ UNCHANGED <<s_upstream, s_head, s_remote, s_ws, s_regsha, s_dev, s_waited,
                 s_changed, s_exc, s_temp, s_result, s_callfresh>>
  /\ UNCHANGED s_old
  /\ UNCHANGED SyncOthers

\* `if os.path.exists(git_dir)`: update the mirror, else clone it
SyncBranch(p) ==
  /\ s_pc[p] = "branch"
  /\ s_pc' = [s_pc EXCEPT ![p] = IF MirrorHasGitDir THEN "config" ELSE "clone"]
  /\ UNCHANGED <<s_upstream, s_gitdir, s_lock, s_head, s_remote, s_ws, s_regsha, s_dev,
                 s_acq, s_waited, s_changed, s_exc, s_temp, s_result, s_callfresh>>
  /\ UNCHANGED s_old
  /\ UNCHANGED SyncOthers

\* One git subprocess of the guarded body succeeds.  In a directory whose
\* .git holds no repository every git command exits non-zero.
SyncGitStep(p) ==
  /\ s_pc[p] \in {"config", "fetch", "reset", "clone"}
  /\ s_pc[p] \in {"config", "fetch", "reset"} => s_gitdir = "repo"
  /\ CASE s_pc[p] = "config" ->
            /\ s_pc' = [s_pc EXCEPT ![p] = "fetch"]
            /\ UNCHANGED <<s_gitdir, s_lock, s_head, s_remote, s_changed>>
       [] s_pc[p] = "fetch" ->
            /\ s_remote' = s_upstream
            /\ s_pc' = [s_pc EXCEPT ![p] = "reset"]
            /\ UNCHANGED <<s_gitdir, s_lock, s_head, s_changed>>
       [] s_pc[p] = "reset" ->
            /\ s_head' = s_remote
            /\ s_changed' = [s_changed EXCEPT ![p] = PullChangesDetected(s_head, s_remote)]
            /\ s_pc' = [s_pc EXCEPT ![p] = "revparse"]
            /\ UNCHANGED <<s_gitdir, s_lock, s_remote>>
       [] s_pc[p] = "clone" ->
            \* shutil.rmtree(shared_repo) takes the lock file with it
            /\ s_lock' = "none"
            /\ s_gitdir' = "repo"
            /\ s_head' = s_upstream
            /\ s_remote' = s_upstream
            /\ s_changed' = [s_changed EXCEPT ![p] = TRUE]
            /\ s_pc' = [s_pc EXCEPT ![p] = "revparse"]
  /\ UNCHANGED <<s_upstream, s_ws, s_regsha, s_dev, s_acq, s_waited, s_exc, s_temp,
                 s_result, s_callfresh>>
  /\ UNCHANGED s_old
  /\ UNCHANGED SyncOthers

\* One git subprocess of the guarded body exits non-zero: CalledProcessError
SyncGitFails(p) ==
  /\ s_pc[p] \in {"config", "fetch", "reset", "clone"}
  /\ s_exc' = [s_exc EXCEPT ![p] = TRUE]
  /\ s_pc' = [s_pc EXCEPT ![p] = "release"]
  /\ UNCHANGED <<s_upstream, s_gitdir, s_lock, s_head, s_remote, s_ws, s_regsha, s_dev,
                 s_acq, s_waited, s_changed, s_temp, s_result, s_callfresh>>
  /\ UNCHANGED s_old
  /\ UNCHANGED SyncOthers

\* get_current_commit_sha (rev-parse origin/<branch>) and the registry update
SyncRecordSha(p) ==
  /\ s_pc[p] = "revparse"
  /\ \/ s_regsha' = [s_regsha EXCEPT ![s_dev[p]] = s_remote]
     \/ UNCHANGED s_regsha      \* rev-parse failed: '' is returned, nothing is written
  /\ s_pc' = [s_pc EXCEPT ![p] = "release"]
  /\ UNCHANGED <<s_upstream, s_gitdir, s_lock, s_head, s_remote, s_ws, s_dev,
                 s_acq, s_waited, s_changed, s_exc, s_temp, s_result, s_callfresh>>
  /\ UNCHANGED s_old
  /\ UNCHANGED SyncOthers

\* file_lock's finally: `if acquired and os.path.exists(lock_file): os.remove(lock_file)`
LockRelease(p) ==
  /\ s_pc[p] = "release"
  /\ s_lock' = ReleasedLock(s_lock, s_acq[p], s_exc[p])
  /\ s_pc' = [s_pc EXCEPT ![p] = IF s_exc[p] THEN "done"
                                  ELSE IF s_changed[p] THEN "stage" ELSE "done"]
  /\ s_result' = [s_result EXCEPT ![p] = IF s_exc[p] THEN FALSE ELSE s_changed[p]]
  /\ UNCHANGED <<s_upstream, s_gitdir, s_head, s_remote, s_ws, s_regsha, s_dev,
                 s_acq, s_waited, s_changed, s_exc, s_temp, s_callfresh>>
  /\ UNCHANGED s_old
  /\ UNCHANGED SyncOthers

\* backup_workspace, then inside atomic_operation('copy_templates_..'):
\* shutil.copytree(src_templates, temp_templates) reads the mirror's files
SyncStage(p) ==
  /\ s_pc[p] = "stage"
  /\ IF s_head # 0
     THEN /\ s_temp' = [s_temp EXCEPT ![p] = s_head]
          /\ s_pc' = [s_pc EXCEPT ![p] = "remove"]
     ELSE \* no src/templates in the mirror: nothing is copied
          /\ s_pc' = [s_pc EXCEPT ![p] = "done"]
          /\ UNCHANGED s_temp
  /\ UNCHANGED <<s_upstream, s_gitdir, s_lock, s_head, s_remote, s_ws, s_regsha, s_dev,
                 s_acq, s_waited, s_changed, s_exc, s_result, s_callfresh>>
  /\ UNCHANGED s_old
  /\ UNCHANGED SyncOthers

\* `if os.path.exists(dst_templates): shutil.rmtree(dst_templates)`
SyncRemoveOld(p) ==
  /\ s_pc[p] = "remove"
  /\ s_ws' = [s_ws EXCEPT ![s_dev[p]] = 0]
  /\ s_pc' = [s_pc EXCEPT ![p] = "move"]
  /\ UNCHANGED <<s_upstream, s_gitdir, s_lock, s_head, s_remote, s_regsha, s_dev,
                 s_acq, s_waited, s_changed, s_exc, s_temp, s_result, s_callfresh>>
  /\ s_old' = [s_old EXCEPT ![p] = s_ws[s_dev[p]]]
  /\ UNCHANGED SyncOthers

\* shutil.move(temp_templates, dst_templates)
SyncMoveNew(p) ==
  /\ s_pc[p] = "move"
  /\ s_ws' = [s_ws EXCEPT ![s_dev[p]] = s_temp[p]]
  /\ s_temp' = [s_temp EXCEPT ![p] = 0]
  /\ s_pc' = [s_pc EXCEPT ![p] = "done"]
  /\ UNCHANGED <<s_upstream, s_gitdir, s_lock, s_head, s_remote, s_regsha, s_dev,
                 s_acq, s_waited, s_changed, s_exc, s_result, s_callfresh>>
  /\ UNCHANGED s_old
  /\ UNCHANGED SyncOthers

\* A step of the copy raises: atomic_operation was given no work_dir, so it
\* rolls nothing back; the outer except returns False
SyncCopyFails(p) ==
  /\ s_pc[p] \in {"stage", "remove", "move"}
  /\ s_exc' = [s_exc EXCEPT ![p] = TRUE]
  /\ s_temp' = [s_temp EXCEPT ![p] = 0]
  /\ s_result' = [s_result EXCEPT ![p] = FALSE]
  /\ s_pc' = [s_pc EXCEPT ![p] = "done"]
  /\ UNCHANGED <<s_upstream, s_gitdir, s_lock, s_head, s_remote, s_ws, s_regsha, s_dev,
                 s_acq, s_waited, s_changed, s_callfresh>>
  /\ UNCHANGED s_old
  /\ UNCHANGED SyncOthers

\* The server process is killed while a caller holds the lock and is started
\* again: no finally clause runs, the lock file stays on disk with no owner
ProcessKilled ==
  /\ s_lock \in Callers
  /\ s_lock' = "stale"
  /\ s_pc' = [p \in Callers |-> "idle"]
  /\ s_dev' = [p \in Callers |-> "d1"]
  /\ s_acq' = [p \in Callers |-> FALSE]
  /\ s_waited' = [p \in Callers |-> 0]
  /\ s_changed' = [p \in Callers |-> FALSE]
  /\ s_exc' = [p \in Callers |-> FALSE]
  /\ s_temp' = [p \in Callers |-> 0]
  /\ s_result' = [p \in Callers |-> FALSE]
  /\ s_callfresh' = [p \in Callers |-> FALSE]
  /\ UNCHANGED <<s_upstream, s_gitdir, s_head, s_remote, s_ws, s_regsha>>
  /\ s_old' = [p \in Callers |-> 0]
  /\ UNCHANGED SyncOthers

\* The call has returned s_result[p]; its locals go out of scope
SyncReturn(p) ==
  /\ s_pc[p] = "done"
  /\ s_pc' = [s_pc EXCEPT ![p] = "idle"]
  /\ s_dev' = [s_dev EXCEPT ![p] = "d1"]
  /\ s_acq' = [s_acq EXCEPT ![p] = FALSE]
  /\ s_waited' = [s_waited EXCEPT ![p] = 0]
  /\ s_changed' = [s_changed EXCEPT ![p] = FALSE]
  /\ s_exc' = [s_exc EXCEPT ![p] = FALSE]
  /\ s_temp' = [s_temp EXCEPT ![p] = 0]
  /\ s_result' = [s_result EXCEPT ![p] = FALSE]
  /\ s_callfresh' = [s_callfresh EXCEPT ![p] = FALSE]
  /\ UNCHANGED <<s_upstream, s_gitdir, s_lock, s_head, s_remote, s_ws, s_regsha>>
  /\ s_old' = [s_old EXCEPT ![p] = 0]
  /\ UNCHANGED SyncOthers

\* The steps of one caller
CallerStep(p) ==
  \/ \E d \in SyncDevices : SyncCall(p, d)
  \/ LockPoll(p) \/ LockCreate(p) \/ SyncBranch(p) \/ SyncGitStep(p)
  \/ SyncGitFails(p) \/ SyncRecordSha(p) \/ LockRelease(p) \/ SyncStage(p)
  \/ SyncRemoveOld(p) \/ SyncMoveNew(p) \/ SyncCopyFails(p) \/ SyncReturn(p)

NextSync ==
  \/ UpstreamPush
  \/ ProcessKilled
  \/ \E p \in Callers, d \in SyncDevices : SyncCall(p, d)
  \/ \E p \in Callers : LockPoll(p)
  \/ \E p \in Callers : LockCreate(p)
  \/ \E p \in Callers : SyncBranch(p)
  \/ \E p \in Callers : SyncGitStep(p)
  \/ \E p \in Callers : SyncGitFails(p)
  \/ \E p \in Callers : SyncRecordSha(p)
  \/ \E p \in Callers : LockRelease(p)
  \/ \E p \in Callers : SyncStage(p)
  \/ \E p \in Callers : SyncRemoveOld(p)
  \/ \E p \in Callers : SyncMoveNew(p)
  \/ \E p \in Callers : SyncCopyFails(p)
  \/ \E p \in Callers : SyncReturn(p)

----------------------------------------------------------------------------
(* AtomicUtils.atomic_operation(operation_name, work_dir)                   *)

\* `if work_dir and os.path.exists(work_dir)` on entry
NeedsStaging == a_arg /\ a_work # 0

\* `if temp_backup and work_dir` in the except clause
RollbackAttempted == a_tempbackup /\ a_arg

AtomIdle ==
  /\ a_arg = FALSE /\ a_work = 0 /\ a_entry = 0 /\ a_tempdir = FALSE
  /\ a_staged = 0 /\ a_tempbackup = FALSE /\ a_pc = "off"
  /\ a_bodyraised = FALSE /\ a_err = "none" /\ a_rollback = "none"

AtomInit ==
  /\ a_arg \in BOOLEAN
  /\ a_work \in 0..MaxContent
  /\ a_entry = 0 /\ a_tempdir = FALSE
  /\ a_staged = 0 /\ a_tempbackup = FALSE /\ a_pc = "idle"
  /\ a_bodyraised = FALSE /\ a_err = "none" /\ a_rollback = "none"

\* __enter__: TemporaryDirectory(), the staging copy, then yield
AtomicEnter ==
  /\ a_pc = "idle"
  /\ a_entry' = a_work
  /\ a_tempdir' = TRUE
  /\ a_tempbackup' = NeedsStaging
  /\ a_staged' = IF NeedsStaging THEN a_work ELSE 0
  /\ a_pc' = "body"
  /\ a_bodyraised' = FALSE /\ a_err' = "none" /\ a_rollback' = "none"
  /\ UNCHANGED <<a_arg, a_work>>
  /\ UNCHANGED AtomOthers

\* __enter__ when shutil.copytree(work_dir, temp_backup) raises: temp_backup is
\* already assigned, and the exception unwinds as one of the body would
AtomicEnterFails ==
  /\ a_pc = "idle"
  /\ NeedsStaging
  /\ a_entry' = a_work
  /\ a_tempdir' = TRUE
  /\ a_tempbackup' = TRUE
  /\ a_staged' = 0
  /\ a_pc' = "unwind"
  /\ a_bodyraised' = FALSE /\ a_err' = "none" /\ a_rollback' = "none"
  /\ UNCHANGED <<a_arg, a_work>>
  /\ UNCHANGED AtomOthers

\* The caller's body changes work_dir: rewrites it, or removes it
AtomicBodyMutates ==
  /\ a_pc = "body"
  /\ \E c \in 0..MaxContent : c # a_work /\ a_work' = c
  /\ UNCHANGED <<a_arg, a_entry, a_tempdir, a_staged, a_tempbackup, a_pc,
                 a_bodyraised, a_err, a_rollback>>
  /\ UNCHANGED AtomOthers

\* The body ends normally: success is logged, the with block removes temp_dir
AtomicBodyReturns ==
  /\ a_pc = "body"
  /\ a_tempdir' = FALSE
  /\ a_staged' = 0
  /\ a_pc' = "done"
  /\ UNCHANGED <<a_arg, a_work, a_entry, a_tempbackup, a_bodyraised, a_err, a_rollback>>
  /\ UNCHANGED AtomOthers

\* The body raises: the exception is thrown into the generator at the yield
AtomicBodyRaises ==
  /\ a_pc = "body"
  /\ a_bodyraised' = TRUE
  /\ a_pc' = "unwind"
  /\ UNCHANGED <<a_arg, a_work, a_entry, a_tempdir, a_staged, a_tempbackup, a_err,
                 a_rollback>>
  /\ UNCHANGED AtomOthers

\* The exception leaves `with tempfile.TemporaryDirectory()`, which is inside
\* the try: its __exit__ removes temp_dir and everything in it
AtomicTempCleanup ==
  /\ a_pc = "unwind"
  /\ a_tempdir' = FALSE
  /\ a_staged' = 0
  /\ a_pc' = "except"
  /\ UNCHANGED <<a_arg, a_work, a_entry, a_tempbackup, a_bodyraised, a_err, a_rollback>>
  /\ UNCHANGED AtomOthers

\* `except Exception`: rmtree(work_dir), copytree(temp_backup, work_dir), with
\* a failure of either logged and swallowed; then raise AtomicOperationError
AtomicExcept ==
  /\ a_pc = "except"
  /\ IF RollbackAttempted
     THEN IF a_staged # 0
          THEN a_work' = a_staged /\ a_rollback' = "rolled_back"
          ELSE a_work' = 0 /\ a_rollback' = "failed"
     ELSE UNCHANGED <<a_work, a_rollback>>
  /\ a_err' = "AtomicOperationError"
  /\ a_pc' = "done"
  /\ UNCHANGED <<a_arg, a_entry, a_tempdir, a_staged, a_tempbackup, a_bodyraised>>
  /\ UNCHANGED AtomOthers

\* The caller uses atomic_operation again
AtomicAgain ==
  /\ a_pc = "done"
  /\ a_pc' = "idle"
  /\ a_arg' \in BOOLEAN
  /\ a_entry' = 0 /\ a_tempbackup' = FALSE
  /\ a_bodyraised' = FALSE /\ a_err' = "none" /\ a_rollback' = "none"
  /\ UNCHANGED <<a_work, a_tempdir, a_staged>>
  /\ UNCHANGED AtomOthers

NextAtomic ==
  \/ AtomicEnter
  \/ AtomicEnterFails
  \/ AtomicBodyMutates
  \/ AtomicBodyReturns
  \/ AtomicBodyRaises
  \/ AtomicTempCleanup
  \/ AtomicExcept
  \/ AtomicAgain

----------------------------------------------------------------------------
(* utils/git_utils.py: verify_device_changes and clone_or_pull_repo;        *)
(* utils/workspace_backup_utils.py: create_backup and restore_backup.       *)
(* One device; the workspace is workspaces/<device>, the mirror is          *)
(* shared_repos/<device>, the backups are device_backups/<device>/backup_*. *)

KeepBackups == 5       \* `while len(backups) > 5`
SyncMaxAttempts == 3   \* @RetryUtils.with_retries(max_attempts=3)
SyncRetryDelay == 1    \* with_retries: delay = 1.0
RefreshMaxAttempts == 3   \* force_refresh: @RetryUtils.with_retries(max_attempts=3)

Timestamps == 1..MaxTime

\* The files verify_device_changes looks at, per kind of tree
TreeKinds == {"generic", "node", "python", "web", "web_cfg", "web_badcfg"}
TreeFiles(k) ==
  [pkg |-> k = "node",
   req |-> k = "python",
   idx |-> k \in {"web", "web_cfg", "web_badcfg"},
   cfg |-> IF k = "web_cfg" THEN "valid"
           ELSE IF k = "web_badcfg" THEN "invalid" ELSE "absent"]

\* The trees pushed upstream in the sync model
SyncTrees == {"web_cfg", "web_badcfg"}

VerifyTreeSkipsConfig(t, gitdir, statusok, readable) ==
  IF ~gitdir THEN FALSE
  ELSE IF ~statusok THEN FALSE
  ELSE IF t.pkg \/ t.req \/ t.idx THEN readable
  ELSE TRUE

VerifyTreeGenericChecked(t, gitdir, statusok, readable) ==
  IF ~gitdir THEN FALSE
  ELSE IF ~statusok THEN FALSE
  ELSE IF t.pkg \/ t.req THEN readable
  ELSE readable /\ t.cfg # "invalid"

\* verify_device_changes(device_id, repo_dir) on a directory holding the files
\* t, where gitdir: repo_dir/.git exists, statusok: `git status` exits 0,
\* readable: os.access(file, R_OK) of the required files
VerifyTree(t, gitdir, statusok, readable) ==
  IF ~gitdir THEN FALSE
  ELSE IF ~statusok THEN FALSE
  ELSE IF t.pkg THEN readable
  ELSE IF t.req THEN readable
  ELSE IF t.idx THEN readable /\ t.cfg # "invalid"
  ELSE TRUE

AbsentWs == [content |-> 0, git |-> FALSE, mode |-> "orig"]

WsStates ==
  {AbsentWs} \cup [content : 1..MaxWsContent, git : BOOLEAN, mode : {"orig"}]

\* create_backup returns None without copying
NoBackupNeeded(ws) == ws.content = 0 \/ ~ws.git

RestoreLosesWorkspace(store, ts, ws) == AbsentWs

RestoreOverExisting(store, ts, ws) ==
  IF store[ts] # 0
  THEN [content |-> IF ws.content # 0 THEN ws.content ELSE store[ts],
        git |-> TRUE, mode |-> "0644"]
  ELSE AbsentWs

\* restore_backup: rmtree(work_dir), then copytree(backup_path, work_dir); the
\* backup's files were chmod-ed to 0644 by create_backup
RestoredWs(store, ts, ws) ==
  IF store[ts] # 0
  THEN [content |-> store[ts], git |-> TRUE, mode |-> "0644"]
  ELSE AbsentWs

\* the value restore_backup returns
RestoreOk(store, ts) == store[ts] # 0

RECURSIVE SortedTs(_)
\* sorted(os.listdir(backups_dir)): the names backup_<timestamp> in ascending order
SortedTs(S) ==
  IF S = {} THEN <<>>
  ELSE LET m == CHOOSE x \in S : \A y \in S : x <= y
       IN <<m>> \o SortedTs(S \ {m})

StoredTs(store) == {t \in Timestamps : store[t] # 0}

PruneKeepsOneMore(list) == Len(list) > KeepBackups + 1

\* `while len(backups) > 5`
PruneNeeded(list) == Len(list) > KeepBackups

Min(a, b) == IF a < b THEN a ELSE b

\* time.sleep(wait_time): every time after MaxTime is the one value
\* MaxTime + 1, at which create_backup is not followed any further
Sleep(clock, wait) == Min(clock + wait, MaxTime + 1)

GitIdle ==
  /\ b_clock = 0 /\ b_ws = AbsentWs /\ b_store = [t \in Timestamps |-> 0]
  /\ b_pc = "off" /\ b_ts = 0 /\ b_list = <<>> /\ b_path = 0
  /\ b_taken = {} /\ b_count = 0
  /\ b_rpath = 0
  /\ g_pc = "off" /\ g_attempt = 0 /\ g_mirror = "absent" /\ g_head = "none"
  /\ g_upstream = "generic" /\ g_bpath = 0 /\ g_before = AbsentWs
  /\ g_verified = "none" /\ g_restored = "none" /\ g_outcome = "none"
  /\ f_status = "OFFLINE" /\ f_pc = "off" /\ f_attempt = 0 /\ f_bodies = 0

\* the exception force_refresh's except clause catches
RefreshRaised(outcome) == outcome = "RetryError"

\* Backups an earlier run of the program left: taken at the seconds
\* 1..KeepBackups-1, each of a workspace with content 1
OldBackups == 1..(KeepBackups - 1)

\* The program starts at second KeepBackups, with no backups or with those of
\* an earlier run, and with no mirror or with the mirror of an earlier run
GitInit ==
  /\ b_clock = KeepBackups /\ b_ws \in WsStates
  /\ \/ b_store = [t \in Timestamps |-> 0] /\ b_taken = {} /\ b_count = 0
     \/ /\ b_store = [t \in Timestamps |-> IF t \in OldBackups THEN 1 ELSE 0]
        /\ b_taken = OldBackups /\ b_count = KeepBackups - 1
  /\ b_rpath = 0
  /\ b_pc = "idle" /\ b_ts = 0 /\ b_list = <<>> /\ b_path = 0
  /\ g_pc = "idle" /\ g_attempt = 0
  /\ \/ g_mirror = "absent" /\ g_head = "none"
     \/ g_mirror = "repo" /\ g_head = "web_cfg"
  /\ g_upstream = "web_cfg" /\ g_bpath = 0 /\ g_before = AbsentWs
  /\ g_verified = "none" /\ g_restored = "none" /\ g_outcome = "none"
  /\ f_status = "ONLINE" /\ f_pc = "idle" /\ f_attempt = 0 /\ f_bodies = 0

\* Wall-clock time passes
Tick ==
  /\ b_clock < MaxTime
  /\ b_clock' = b_clock + 1
  /\ UNCHANGED <<b_ws, b_store, b_pc, b_ts, b_list, b_path, b_taken, b_count,
                 g_pc, g_attempt, g_mirror, g_head, g_upstream, g_bpath, g_before,
                 g_verified, g_restored, g_outcome>>
  /\ UNCHANGED refreshVars
  /\ UNCHANGED b_rpath
  /\ UNCHANGED GitOthers

\* Between two syncs the device's workspace is set up, edited or removed
WsEdit ==
  /\ g_pc = "idle"
  /\ \E w \in WsStates : w # b_ws /\ b_ws' = w
  /\ UNCHANGED <<b_clock, b_store, b_pc, b_ts, b_list, b_path, b_taken, b_count,
                 g_pc, g_attempt, g_mirror, g_head, g_upstream, g_bpath, g_before,
                 g_verified, g_restored, g_outcome>>
  /\ UNCHANGED refreshVars
  /\ UNCHANGED b_rpath
  /\ UNCHANGED GitOthers

\* A commit with another tree is pushed to the remote branch
GitPush ==
  /\ \E k \in SyncTrees : k # g_upstream /\ g_upstream' = k
  /\ UNCHANGED <<b_clock, b_ws, b_store, b_pc, b_ts, b_list, b_path, b_taken, b_count,
                 g_pc, g_attempt, g_mirror, g_head, g_bpath, g_before,
                 g_verified, g_restored, g_outcome>>
  /\ UNCHANGED refreshVars
  /\ UNCHANGED b_rpath
  /\ UNCHANGED GitOthers

\* create_backup up to the listing of the backups directory
BackupStart ==
  /\ b_pc = "start"
  /\ IF NoBackupNeeded(b_ws)
     THEN /\ b_path' = 0 /\ b_pc' = "ret"
          /\ UNCHANGED <<b_store, b_ts, b_list>>
     ELSE /\ b_clock \in Timestamps
          /\ b_ts' = b_clock
          /\ b_store' = [b_store EXCEPT ![b_clock] = b_ws.content]
          /\ b_list' = SortedTs(StoredTs(b_store'))
          /\ b_pc' = "prune"
          /\ UNCHANGED b_path
  /\ UNCHANGED <<b_clock, b_ws, b_taken, b_count,
                 g_pc, g_attempt, g_mirror, g_head, g_upstream, g_bpath, g_before,
                 g_verified, g_restored, g_outcome>>
  /\ UNCHANGED refreshVars
  /\ UNCHANGED b_rpath
  /\ UNCHANGED GitOthers

\* create_backup: no read access, or an exception before anything is copied
BackupFails ==
  /\ b_pc = "start"
  /\ ~NoBackupNeeded(b_ws)
  /\ b_path' = 0 /\ b_pc' = "ret"
  /\ UNCHANGED <<b_clock, b_ws, b_store, b_ts, b_list, b_taken, b_count,
                 g_pc, g_attempt, g_mirror, g_head, g_upstream, g_bpath, g_before,
                 g_verified, g_restored, g_outcome>>
  /\ UNCHANGED refreshVars
  /\ UNCHANGED b_rpath
  /\ UNCHANGED GitOthers

\* create_backup: one evaluation of the pruning loop's condition
BackupPrune ==
  /\ b_pc = "prune"
  /\ IF PruneNeeded(b_list)
     THEN /\ b_store' = [b_store EXCEPT ![Head(b_list)] = 0]
          /\ b_list' = Tail(b_list)
          /\ UNCHANGED <<b_pc, b_path, b_taken, b_count>>
     ELSE /\ b_path' = b_ts
          /\ b_pc' = "ret"
          /\ b_taken' = b_taken \cup {b_ts}
          /\ b_count' = Min(b_count + 1, KeepBackups + 1)
          /\ UNCHANGED <<b_store, b_list>>
  /\ UNCHANGED <<b_clock, b_ws, b_ts,
                 g_pc, g_attempt, g_mirror, g_head, g_upstream, g_bpath, g_before,
                 g_verified, g_restored, g_outcome>>
  /\ UNCHANGED refreshVars
  /\ UNCHANGED b_rpath
  /\ UNCHANGED GitOthers

\* What one attempt of clone_or_pull_repo does first: with a mirror it calls
\* create_backup, without one it clones
AttemptEntry(pc2, bpc2) ==
  IF g_mirror = "repo"
  THEN pc2 = "backup" /\ bpc2 = "start"
  ELSE pc2 = "clone" /\ bpc2 = b_pc

\* clone_or_pull_repo is entered (first attempt of its wrapper)
CallEntry ==
  /\ g_attempt' = 0
  /\ g_before' = b_ws
  /\ g_bpath' = 0
  /\ g_verified' = "none" /\ g_restored' = "none" /\ g_outcome' = "none"
  /\ AttemptEntry(g_pc', b_pc')

\* monitor_gitlab_changes calls clone_or_pull_repo
GitCall ==
  /\ g_pc = "idle" /\ f_pc = "idle"
  /\ CallEntry
  /\ UNCHANGED <<b_clock, b_ws, b_store, b_ts, b_list, b_path, b_taken, b_count,
                 g_mirror, g_head, g_upstream>>
  /\ UNCHANGED refreshVars
  /\ UNCHANGED b_rpath
  /\ UNCHANGED GitOthers

\* force_refresh: the status becomes UPDATING, then clone_or_pull_repo is called
RefreshCall ==
  /\ g_pc = "idle" /\ f_pc = "idle"
  /\ f_status' = "UPDATING"
  /\ f_pc' = "refresh" /\ f_attempt' = 0
  /\ f_bodies' = 1
  /\ CallEntry
  /\ UNCHANGED <<b_clock, b_ws, b_store, b_ts, b_list, b_path, b_taken, b_count,
                 g_mirror, g_head, g_upstream>>
  /\ UNCHANGED b_rpath
  /\ UNCHANGED GitOthers

\* force_refresh after clone_or_pull_repo: ONLINE and {'status': 'refreshed'}
\* when it returned; ERROR and re-raise when it raised
RefreshEnd ==
  /\ g_pc = "done" /\ f_pc = "refresh"
  /\ IF RefreshRaised(g_outcome)
     THEN f_status' = "ERROR" /\ f_pc' = "raised"
     ELSE f_status' = "ONLINE" /\ f_pc' = "returned"
  /\ UNCHANGED <<f_attempt, f_bodies>>
  /\ UNCHANGED <<b_clock, b_ws, b_store, b_pc, b_ts, b_list, b_path, b_taken, b_count,
                 g_pc, g_attempt, g_mirror, g_head, g_upstream, g_bpath, g_before,
                 g_verified, g_restored, g_outcome>>
  /\ UNCHANGED b_rpath
  /\ UNCHANGED GitOthers

\* with_retries around force_refresh: wait and call it again, or RetryError
RefreshRetry ==
  /\ g_pc = "done" /\ f_pc = "raised"
  /\ IF HasNextAttempt(f_attempt, RefreshMaxAttempts)
     THEN /\ b_clock' = Sleep(b_clock, WaitTime(SyncRetryDelay, f_attempt))
          /\ f_attempt' = f_attempt + 1
          /\ f_bodies' = f_bodies + 1
          /\ f_status' = "UPDATING"
          /\ f_pc' = "refresh"
          /\ CallEntry
     ELSE /\ f_pc' = "failed"
          /\ UNCHANGED <<b_clock, b_pc, f_attempt, f_bodies, f_status, g_pc, g_attempt, g_bpath,
                         g_before, g_verified, g_restored, g_outcome>>
  /\ UNCHANGED <<b_ws, b_store, b_ts, b_list, b_path, b_taken, b_count,
                 g_mirror, g_head, g_upstream>>
  /\ UNCHANGED b_rpath
  /\ UNCHANGED GitOthers

\* `backup_path = create_backup(device_id)` has returned
GitAfterBackup ==
  /\ g_pc = "backup" /\ b_pc = "ret"
  /\ g_bpath' = b_path
  /\ b_pc' = "idle"
  /\ b_ts' = 0 /\ b_list' = <<>> /\ b_path' = 0
  /\ g_pc' = "pull"
  /\ UNCHANGED <<b_clock, b_ws, b_store, b_taken, b_count,
                 g_attempt, g_mirror, g_head, g_upstream, g_before,
                 g_verified, g_restored, g_outcome>>
  /\ UNCHANGED refreshVars
  /\ UNCHANGED b_rpath
  /\ UNCHANGED GitOthers

\* git fetch origin <branch>; git reset --hard origin/<branch>
GitPull ==
  /\ g_pc = "pull"
  /\ g_head' = g_upstream
  /\ g_pc' = "verify"
  /\ UNCHANGED <<b_clock, b_ws, b_store, b_pc, b_ts, b_list, b_path, b_taken, b_count,
                 g_attempt, g_mirror, g_upstream, g_bpath, g_before,
                 g_verified, g_restored, g_outcome>>
  /\ UNCHANGED refreshVars
  /\ UNCHANGED b_rpath
  /\ UNCHANGED GitOthers

\* fetch or reset exits non-zero: the inner except restores the backup, if
\* there is one, and re-raises
GitPullFails ==
  /\ g_pc = "pull"
  /\ IF g_bpath # 0
     THEN /\ b_ws' = RestoredWs(b_store, g_bpath, b_ws)
          /\ g_restored' = IF RestoreOk(b_store, g_bpath) THEN "ok" ELSE "failed"
     ELSE UNCHANGED <<b_ws, g_restored>>
  /\ g_pc' = "raised"
  /\ UNCHANGED <<b_clock, b_store, b_pc, b_ts, b_list, b_path, b_taken, b_count,
                 g_attempt, g_mirror, g_head, g_upstream, g_bpath, g_before,
                 g_verified, g_outcome>>
  /\ UNCHANGED refreshVars
  /\ UNCHANGED b_rpath
  /\ UNCHANGED GitOthers

\* verify_device_changes on the mirror, and what the caller does with a False
GitVerify ==
  /\ g_pc = "verify"
  /\ \E statusok \in BOOLEAN, readable \in BOOLEAN :
       LET ok == VerifyTree(TreeFiles(g_head), TRUE, statusok, readable) IN
       /\ g_verified' = IF ok THEN "passed" ELSE "failed"
       /\ IF ~ok /\ g_bpath # 0
          THEN /\ b_ws' = RestoredWs(b_store, g_bpath, b_ws)
               /\ g_restored' = IF RestoreOk(b_store, g_bpath) THEN "ok" ELSE "failed"
          ELSE UNCHANGED <<b_ws, g_restored>>
       /\ g_outcome' = IF ok THEN "updated" ELSE "rejected"
  /\ g_pc' = "done"
  /\ UNCHANGED <<b_clock, b_store, b_pc, b_ts, b_list, b_path, b_taken, b_count,
                 g_attempt, g_mirror, g_head, g_upstream, g_bpath, g_before>>
  /\ UNCHANGED refreshVars
  /\ UNCHANGED b_rpath
  /\ UNCHANGED GitOthers

\* git clone -b <branch> <url> <repo_dir>
GitClone ==
  /\ g_pc = "clone"
  /\ g_mirror' = "repo"
  /\ g_head' = g_upstream
  /\ g_outcome' = "cloned"
  /\ g_pc' = "done"
  /\ UNCHANGED <<b_clock, b_ws, b_store, b_pc, b_ts, b_list, b_path, b_taken, b_count,
                 g_attempt, g_upstream, g_bpath, g_before, g_verified, g_restored>>
  /\ UNCHANGED refreshVars
  /\ UNCHANGED b_rpath
  /\ UNCHANGED GitOthers

\* git clone exits non-zero
GitCloneFails ==
  /\ g_pc = "clone"
  /\ g_pc' = "raised"
  /\ UNCHANGED <<b_clock, b_ws, b_store, b_pc, b_ts, b_list, b_path, b_taken, b_count,
                 g_attempt, g_mirror, g_head, g_upstream, g_bpath, g_before,
                 g_verified, g_restored, g_outcome>>
  /\ UNCHANGED refreshVars
  /\ UNCHANGED b_rpath
  /\ UNCHANGED GitOthers

\* The wrapper catches the exception: sleep and call again, or RetryError
GitRaised ==
  /\ g_pc = "raised"
  /\ IF HasNextAttempt(g_attempt, SyncMaxAttempts)
     THEN /\ b_clock' = Sleep(b_clock, WaitTime(SyncRetryDelay, g_attempt))
          /\ g_attempt' = g_attempt + 1
          /\ g_bpath' = 0
          /\ AttemptEntry(g_pc', b_pc')
          /\ f_bodies' = IF f_pc = "refresh" THEN f_bodies + 1 ELSE f_bodies
          /\ UNCHANGED g_outcome
     ELSE /\ g_outcome' = "RetryError"
          /\ g_pc' = "done"
          /\ UNCHANGED <<b_clock, b_pc, g_attempt, g_bpath, f_bodies>>
  /\ UNCHANGED <<b_ws, b_store, b_ts, b_list, b_path, b_taken, b_count,
                 g_mirror, g_head, g_upstream, g_before, g_verified, g_restored>>
  /\ UNCHANGED <<f_status, f_pc, f_attempt>>
  /\ UNCHANGED b_rpath
  /\ UNCHANGED GitOthers

\* The call is over
GitReturn ==
  /\ g_pc = "done" /\ f_pc \in {"idle", "returned", "failed"}
  /\ g_pc' = "idle"
  /\ f_pc' = "idle" /\ f_attempt' = 0 /\ f_bodies' = 0
  /\ UNCHANGED f_status
  /\ g_attempt' = 0 /\ g_bpath' = 0 /\ g_before' = AbsentWs
  /\ g_verified' = "none" /\ g_restored' = "none" /\ g_outcome' = "none"
  /\ UNCHANGED <<b_clock, b_ws, b_store, b_pc, b_ts, b_list, b_path, b_taken, b_count,
                 g_mirror, g_head, g_upstream>>
  /\ UNCHANGED b_rpath
  /\ UNCHANGED GitOthers

\* restore_backup(device_id, backup_path) called on the path an earlier
\* create_backup returned
RestoreCall ==
  /\ g_pc = "idle" /\ f_pc = "idle"
  /\ \E ts \in b_taken :
       /\ b_rpath' = ts
       /\ b_ws' = RestoredWs(b_store, ts, b_ws)
       /\ g_restored' = IF RestoreOk(b_store, ts) THEN "ok" ELSE "failed"
  /\ g_before' = b_ws
  /\ g_pc' = "restoring"
  /\ UNCHANGED <<b_clock, b_store, b_pc, b_ts, b_list, b_path, b_taken, b_count,
                 g_attempt, g_mirror, g_head, g_upstream, g_bpath,
                 g_verified, g_outcome>>
  /\ UNCHANGED refreshVars
  /\ UNCHANGED GitOthers

\* that call has returned
RestoreReturn ==
  /\ g_pc = "restoring"
  /\ g_pc' = "idle" /\ b_rpath' = 0 /\ g_restored' = "none" /\ g_before' = AbsentWs
  /\ UNCHANGED <<b_clock, b_ws, b_store, b_pc, b_ts, b_list, b_path, b_taken, b_count,
                 g_attempt, g_mirror, g_head, g_upstream, g_bpath,
                 g_verified, g_outcome>>
  /\ UNCHANGED refreshVars
  /\ UNCHANGED GitOthers

NextGit ==
  \/ Tick
  \/ WsEdit
  \/ GitPush
  \/ BackupStart
  \/ BackupFails
  \/ BackupPrune
  \/ GitCall
  \/ GitAfterBackup
  \/ GitPull
  \/ GitPullFails
  \/ GitVerify
  \/ GitClone
  \/ GitCloneFails
  \/ GitRaised
  \/ GitReturn
  \/ RefreshCall
  \/ RefreshEnd
  \/ RefreshRetry
  \/ RestoreCall
  \/ RestoreReturn

----------------------------------------------------------------------------
(* run_gitlab_controller.py: the supervisor's reconciliation pass           *)

Devices == {"d1", "d2"}
NoProc == [pid |-> 0, token |-> 0]

Registered(running) == {d \in Devices : running[d].pid # 0}
Configured(current) == {d \in Devices : current[d] # 0}

PollAlwaysTerminated(alive, pid) == TRUE

\* `process.poll() is not None`
IsTerminated(alive, pid) == \A q \in alive : q.pid # pid

KeepDeadEntry(running, d) == running

\* check_process_status: `del running_processes[device_id]`
ReapEntry(running, d) == [running EXCEPT ![d] = NoProc]

StopOnlyRemoved(current, d, proc) == current[d] = 0

\* poll_and_update: the device was removed or its github_token changed
NeedsStop(current, d, proc) == current[d] = 0 \/ current[d] # proc.token

SupIdle ==
  /\ p_registry = [d \in Devices |-> 0]
  /\ p_running = [d \in Devices |-> NoProc]
  /\ p_alive = {} /\ p_nextpid = 1 /\ p_pc = "off"
  /\ p_current = [d \in Devices |-> 0]
  /\ p_todo = {} /\ p_observed = {} /\ p_stopped = {} /\ p_failed = FALSE
  /\ p_pollfailed = FALSE

SupInit ==
  /\ p_registry \in [Devices -> 0..MaxToken]
  /\ p_running = [d \in Devices |-> NoProc]
  /\ p_alive = {} /\ p_nextpid = 1 /\ p_pc = "idle"
  /\ p_current = [d \in Devices |-> 0]
  /\ p_todo = {} /\ p_observed = {} /\ p_stopped = {} /\ p_failed = FALSE
  /\ p_pollfailed = FALSE

\* A device is configured, removed, or gets another token in the registry
RegistryChange ==
  /\ p_pc # "stopped"
  /\ \E d \in Devices, t \in 0..MaxToken :
       /\ t # p_registry[d]
       /\ p_registry' = [p_registry EXCEPT ![d] = t]
  /\ UNCHANGED <<p_running, p_alive, p_nextpid, p_pc, p_current, p_todo,
                 p_observed, p_stopped, p_failed>>
  /\ UNCHANGED p_pollfailed
  /\ UNCHANGED SupOthers

\* A controller process exits on its own
ControllerExits ==
  /\ \E q \in p_alive : p_alive' = p_alive \ {q}
  /\ UNCHANGED <<p_registry, p_running, p_nextpid, p_pc, p_current, p_todo,
                 p_observed, p_stopped, p_failed>>
  /\ UNCHANGED p_pollfailed
  /\ UNCHANGED SupOthers

\* poll_and_update: current_devices = await get_devices_with_github(), then
\* `for device_id in list(running_processes.keys())`
PassBegin ==
  /\ p_pc = "idle"
  /\ \/ p_current' = p_registry /\ p_pollfailed' = FALSE
     \/ \* the query raised: {} is returned
        p_current' = [d \in Devices |-> 0] /\ p_pollfailed' = TRUE
  /\ p_todo' = Registered(p_running)
  /\ p_observed' = {}
  /\ p_stopped' = {}
  /\ p_failed' = FALSE
  /\ p_pc' = "check"
  /\ UNCHANGED <<p_registry, p_running, p_alive, p_nextpid>>
  /\ UNCHANGED SupOthers

\* One iteration of the first loop: check_process_status, then
\* stop_gitlab_controller if the device was removed or its token changed
PassCheck ==
  /\ p_pc = "check"
  /\ \E d \in p_todo :
       LET proc == p_running[d] IN
       /\ p_todo' = p_todo \ {d}
       /\ IF IsTerminated(p_alive, proc.pid)
          THEN /\ p_running' = ReapEntry(p_running, d)
               /\ p_observed' = p_observed \cup {[pid |-> proc.pid, dev |-> d]}
               /\ UNCHANGED <<p_alive, p_stopped>>
          ELSE IF NeedsStop(p_current, d, proc)
          THEN \* terminate(), wait(timeout=5), kill() on timeout; del
               /\ p_alive' = {q \in p_alive : q.pid # proc.pid}
               /\ p_running' = [p_running EXCEPT ![d] = NoProc]
               /\ p_stopped' = p_stopped \cup {d}
               /\ UNCHANGED p_observed
          ELSE UNCHANGED <<p_running, p_alive, p_observed, p_stopped>>
  /\ UNCHANGED <<p_registry, p_nextpid, p_pc, p_current, p_failed>>
  /\ UNCHANGED p_pollfailed
  /\ UNCHANGED SupOthers

\* stop_gitlab_controller raises something other than TimeoutExpired (closing
\* a log file, terminate): the entry stays and poll_and_update's except ends
\* the pass
PassStopFails ==
  /\ p_pc = "check"
  /\ \E d \in p_todo :
       /\ ~IsTerminated(p_alive, p_running[d].pid)
       /\ NeedsStop(p_current, d, p_running[d])
  /\ p_failed' = TRUE
  /\ p_todo' = {}
  /\ p_pc' = "end"
  /\ UNCHANGED <<p_registry, p_running, p_alive, p_nextpid, p_current, p_observed,
                 p_stopped>>
  /\ UNCHANGED p_pollfailed
  /\ UNCHANGED SupOthers

\* The first loop is over: `for device_id, device in current_devices.items()`
PassToStart ==
  /\ p_pc = "check" /\ p_todo = {}
  /\ p_todo' = Configured(p_current)
  /\ p_pc' = "start"
  /\ UNCHANGED <<p_registry, p_running, p_alive, p_nextpid, p_current,
                 p_observed, p_stopped, p_failed>>
  /\ UNCHANGED p_pollfailed
  /\ UNCHANGED SupOthers

\* One iteration of the second loop: start_gitlab_controller for a device
\* with no entry, and the registration of the process it returns
PassStart ==
  /\ p_pc = "start"
  /\ \E d \in p_todo :
       /\ p_todo' = p_todo \ {d}
       /\ IF p_running[d].pid = 0
          THEN /\ p_nextpid <= MaxPid
               /\ p_alive' = p_alive \cup {[pid |-> p_nextpid, dev |-> d]}
               /\ p_running' = [p_running EXCEPT
                                  ![d] = [pid |-> p_nextpid, token |-> p_current[d]]]
               /\ p_nextpid' = p_nextpid + 1
          ELSE UNCHANGED <<p_running, p_alive, p_nextpid>>
  /\ UNCHANGED <<p_registry, p_pc, p_current, p_observed, p_stopped, p_failed>>
  /\ UNCHANGED p_pollfailed
  /\ UNCHANGED SupOthers

\* start_gitlab_controller catches an exception and returns None
PassStartFails ==
  /\ p_pc = "start"
  /\ \E d \in p_todo :
       /\ p_running[d].pid = 0
       /\ p_todo' = p_todo \ {d}
  /\ p_failed' = TRUE
  /\ UNCHANGED <<p_registry, p_running, p_alive, p_nextpid, p_pc, p_current, p_observed,
                 p_stopped>>
  /\ UNCHANGED p_pollfailed
  /\ UNCHANGED SupOthers

\* The second loop is over: the status line is logged
PassEnd ==
  /\ p_pc = "start" /\ p_todo = {}
  /\ p_pc' = "end"
  /\ UNCHANGED <<p_registry, p_running, p_alive, p_nextpid, p_current, p_todo,
                 p_observed, p_stopped, p_failed>>
  /\ UNCHANGED p_pollfailed
  /\ UNCHANGED SupOthers

\* manage_controllers: asyncio.sleep(10) until the next pass
PassSleep ==
  /\ p_pc = "end"
  /\ p_pc' = "idle"
  /\ p_current' = [d \in Devices |-> 0]
  /\ p_observed' = {}
  /\ p_stopped' = {}
  /\ p_failed' = FALSE
  /\ UNCHANGED <<p_registry, p_running, p_alive, p_nextpid, p_todo>>
  /\ p_pollfailed' = FALSE
  /\ UNCHANGED SupOthers

\* main: KeyboardInterrupt during the sleep: every controller is stopped
Shutdown ==
  /\ p_pc = "idle"
  /\ p_alive' = {q \in p_alive : \A d \in Registered(p_running) : p_running[d].pid # q.pid}
  /\ p_running' = [d \in Devices |-> NoProc]
  /\ p_pc' = "stopped"
  /\ UNCHANGED <<p_registry, p_nextpid, p_current, p_todo, p_observed, p_stopped, p_failed>>
  /\ UNCHANGED p_pollfailed
  /\ UNCHANGED SupOthers

NextSup ==
  \/ RegistryChange
  \/ ControllerExits
  \/ PassBegin
  \/ PassCheck
  \/ PassStopFails
  \/ PassToStart
  \/ PassStart
  \/ PassStartFails
  \/ PassEnd
  \/ PassSleep
  \/ Shutdown

----------------------------------------------------------------------------
(* utils/device_manager.py and device_api.py: start_device and stop_device  *)

\* The statuses update_device_status accepts
Statuses == {"ONLINE", "OFFLINE", "ERROR", "UPDATING"}
NoCall == [op |-> "none", dev |-> "none"]

\* utils/device_manager.py stop_device: the status is written only past
\* `if device_id not in running_controllers: return {'status': 'not_running'}`
MgrStopWrites(running, d) == d \in running

MgrIdle ==
  /\ m_status = [d \in Devices |-> "OFFLINE"]
  /\ m_configured = {}
  /\ m_running = {} /\ m_apirunning = {}
  /\ m_last = NoCall /\ m_result = "none" /\ m_effects = {} /\ m_dbfail = FALSE
  /\ m_lastok = [d \in Devices |-> "none"]

\* Both running_controllers dicts are empty when their process starts; the
\* registry outlives the processes and holds whatever was written last
MgrInit ==
  /\ m_status \in [Devices -> {"ONLINE", "OFFLINE"}]
  /\ m_configured \in SUBSET Devices
  /\ m_running = {} /\ m_apirunning = {}
  /\ m_last = NoCall /\ m_result = "none" /\ m_effects = {} /\ m_dbfail = FALSE
  /\ m_lastok = [d \in Devices |-> "none"]

\* utils/device_manager.py start_device
MgrStart ==
  \E d \in Devices :
    /\ m_last' = [op |-> "mgr_start", dev |-> d]
    /\ m_dbfail' = FALSE
    /\ IF d \in m_running
       THEN /\ m_result' = "already_running"
            /\ m_effects' = {}
            /\ UNCHANGED <<m_status, m_running>>
       ELSE /\ m_status' = [m_status EXCEPT ![d] = "ONLINE"]
            /\ m_running' = m_running \cup {d}
            /\ m_result' = "started"
            /\ m_effects' = {"registry_write"}
    /\ m_lastok' = [m_lastok EXCEPT ![d] = "start"]
    /\ UNCHANGED <<m_configured, m_apirunning>>
    /\ UNCHANGED MgrOthers

\* utils/device_manager.py stop_device
MgrStop ==
  \E d \in Devices :
    /\ m_last' = [op |-> "mgr_stop", dev |-> d]
    /\ m_dbfail' = FALSE
    /\ IF MgrStopWrites(m_running, d)
       THEN /\ m_status' = [m_status EXCEPT ![d] = "OFFLINE"]
            /\ m_effects' = {"registry_write"}
       ELSE /\ UNCHANGED m_status
            /\ m_effects' = {}
    /\ IF d \notin m_running
       THEN /\ m_result' = "not_running"
            /\ UNCHANGED m_running
       ELSE /\ m_running' = m_running \ {d}
            /\ m_result' = "stopped"
    /\ m_lastok' = [m_lastok EXCEPT ![d] = "stop"]
    /\ UNCHANGED <<m_configured, m_apirunning>>
    /\ UNCHANGED MgrOthers

RegisteredBeforeWrite(running, d, op) ==
  IF op = "mgr_start" THEN running \cup {d} ELSE running \ {d}

\* utils/device_manager.py: `running_controllers[device_id] = True` and
\* `del running_controllers[device_id]` follow update_device_status, so a
\* call that raised there has not touched the dict
RunningAfterRaise(running, d, op) == running

\* utils/device_manager.py: update_device_status raises once its retries are
\* used up, and start_device or stop_device re-raises it
MgrCallRaises ==
  \E d \in Devices, op \in {"mgr_start", "mgr_stop"} :
    /\ (op = "mgr_start") = (d \notin m_running)
    /\ m_last' = [op |-> op, dev |-> d]
    /\ m_result' = "error"
    /\ m_effects' = {}
    /\ m_dbfail' = TRUE
    /\ m_running' = RunningAfterRaise(m_running, d, op)
    /\ UNCHANGED <<m_status, m_configured, m_apirunning, m_lastok>>
    /\ UNCHANGED MgrOthers

\* device_api.py start_device; update_device_status there logs a failed
\* registry write and carries on
ApiStart ==
  \E d \in Devices, written \in BOOLEAN :
    /\ m_last' = [op |-> "api_start", dev |-> d]
    /\ IF d \notin m_configured
       THEN /\ m_result' = "not_found"
            /\ m_effects' = {} /\ m_dbfail' = FALSE
            /\ UNCHANGED <<m_status, m_apirunning>>
       ELSE IF d \in m_apirunning
       THEN /\ m_result' = "already_running"
            /\ m_effects' = {} /\ m_dbfail' = FALSE
            /\ UNCHANGED <<m_status, m_apirunning>>
       ELSE /\ m_apirunning' = m_apirunning \cup {d}
            /\ m_status' = IF written THEN [m_status EXCEPT ![d] = "ONLINE"] ELSE m_status
            /\ m_dbfail' = ~written
            /\ m_effects' = {"workspace_setup", "sync"}
                              \cup (IF written THEN {"registry_write"} ELSE {})
            /\ m_result' = "started"
    /\ UNCHANGED <<m_configured, m_running>>
    /\ UNCHANGED m_lastok
    /\ UNCHANGED MgrOthers

\* device_api.py start_device: setup_device_workspace raises, a 500 is returned
ApiStartRaises ==
  \E d \in m_configured \ m_apirunning :
    /\ m_last' = [op |-> "api_start", dev |-> d]
    /\ m_result' = "error"
    /\ m_effects' = {"workspace_setup"}
    /\ m_dbfail' = FALSE
    /\ UNCHANGED <<m_status, m_configured, m_running, m_apirunning>>
    /\ UNCHANGED m_lastok
    /\ UNCHANGED MgrOthers

\* device_api.py stop_device
ApiStop ==
  \E d \in Devices, written \in BOOLEAN :
    /\ m_last' = [op |-> "api_stop", dev |-> d]
    /\ IF d \notin m_configured
       THEN /\ m_result' = "not_found"
            /\ m_effects' = {} /\ m_dbfail' = FALSE
            /\ UNCHANGED <<m_status, m_apirunning>>
       ELSE /\ m_status' = IF written THEN [m_status EXCEPT ![d] = "OFFLINE"] ELSE m_status
            /\ m_dbfail' = ~written
            /\ m_effects' = IF written THEN {"registry_write"} ELSE {}
            /\ m_result' = IF d \in m_apirunning THEN "stopped" ELSE "not_running"
            /\ m_apirunning' = m_apirunning \ {d}
    /\ UNCHANGED <<m_configured, m_running>>
    /\ UNCHANGED m_lastok
    /\ UNCHANGED MgrOthers

\* Another writer of the devices table: a controller reports its status, or
\* the device's repository configuration is added or removed
StatusReport ==
  \E d \in Devices, st \in Statuses :
    /\ st # m_status[d]
    /\ m_status' = [m_status EXCEPT ![d] = st]
    /\ m_last' = [op |-> "report", dev |-> d]
    /\ m_result' = "none" /\ m_effects' = {} /\ m_dbfail' = FALSE
    /\ UNCHANGED <<m_configured, m_running, m_apirunning>>
    /\ UNCHANGED m_lastok
    /\ UNCHANGED MgrOthers

ConfigChange ==
  \E d \in Devices :
    /\ m_configured' = IF d \in m_configured THEN m_configured \ {d}
                       ELSE m_configured \cup {d}
    /\ m_last' = [op |-> "config", dev |-> d]
    /\ m_result' = "none" /\ m_effects' = {} /\ m_dbfail' = FALSE
    /\ UNCHANGED <<m_status, m_running, m_apirunning>>
    /\ UNCHANGED m_lastok
    /\ UNCHANGED MgrOthers

NextMgr ==
  \/ MgrStart
  \/ MgrStop
  \/ MgrCallRaises
  \/ ApiStart
  \/ ApiStartRaises
  \/ ApiStop
  \/ StatusReport
  \/ ConfigChange

----------------------------------------------------------------------------
(* run_gitlab_controller.py: stop_gitlab_controller, one step per statement *)

\* responsive: exits on SIGTERM; unresponsive: does not exit within the wait
ProcStates == {"responsive", "unresponsive", "exited", "terminated", "killed"}
LiveProc == {"responsive", "unresponsive"}

KillAlways(timedout) == TRUE

\* `except subprocess.TimeoutExpired: process.kill()`
KillNeeded(timedout) == timedout

\* A start call finds the device registered, or starts it, or fails
StartCases == {"already", "fresh", "error"}

StopIdle ==
  /\ k_entries = {} /\ k_proc = [d \in Devices |-> "exited"]
  /\ k_logs = [d \in Devices |-> FALSE] /\ k_work = [d \in Devices |-> FALSE]
  /\ k_pc = "off" /\ k_dev = "none" /\ k_events = <<>>
  /\ k_timedout = FALSE /\ k_rmfailed = FALSE
  /\ k_result = "none" /\ k_seen = [c \in StartCases |-> {}]

\* Controllers started by start_gitlab_controller: log files open, any state
\* of the process and of its work_dir
StopInit ==
  /\ k_entries \in SUBSET Devices
  /\ k_proc \in [Devices -> {"responsive", "unresponsive", "exited"}]
  /\ \A d \in Devices : d \notin k_entries => k_proc[d] = "exited"
  /\ k_logs = [d \in Devices |-> d \in k_entries]
  /\ k_work \in [Devices -> BOOLEAN]
  /\ k_pc = "idle" /\ k_dev = "none" /\ k_events = <<>>
  /\ k_timedout = FALSE /\ k_rmfailed = FALSE
  /\ k_result = "none" /\ k_seen = [c \in StartCases |-> {}]

\* stop_gitlab_controller(device_id): `if device_id in running_processes`
StopCall ==
  /\ k_pc \in {"idle", "returned", "raised"}
  /\ \E d \in Devices :
       /\ k_dev' = d
       /\ k_pc' = IF d \in k_entries THEN "close" ELSE "returned"
  /\ k_events' = <<>>
  /\ k_timedout' = FALSE /\ k_rmfailed' = FALSE
  /\ UNCHANGED <<k_entries, k_proc, k_logs, k_work>>
  /\ UNCHANGED startVars
  /\ UNCHANGED StopOthers

\* process.stdout_file.close(); process.stderr_file.close()
StopCloseLogs ==
  /\ k_pc = "close"
  /\ k_logs' = [k_logs EXCEPT ![k_dev] = FALSE]
  /\ k_events' = Append(k_events, "close_logs")
  /\ k_pc' = "terminate"
  /\ UNCHANGED <<k_entries, k_proc, k_work, k_dev, k_timedout, k_rmfailed>>
  /\ UNCHANGED startVars
  /\ UNCHANGED StopOthers

\* close() or terminate() raises something other than TimeoutExpired: it
\* leaves stop_gitlab_controller, the entry and the workspace stay
StopRaises ==
  /\ k_pc \in {"close", "terminate"}
  /\ k_pc' = "raised"
  /\ UNCHANGED <<k_entries, k_proc, k_logs, k_work, k_dev, k_events, k_timedout,
                 k_rmfailed>>
  /\ UNCHANGED startVars
  /\ UNCHANGED StopOthers

\* process.terminate()
StopTerminate ==
  /\ k_pc = "terminate"
  /\ k_events' = Append(k_events, "terminate")
  /\ k_pc' = "wait"
  /\ UNCHANGED <<k_entries, k_proc, k_logs, k_work, k_dev, k_timedout, k_rmfailed>>
  /\ UNCHANGED startVars
  /\ UNCHANGED StopOthers

\* process.wait(timeout=5)
StopWait ==
  /\ k_pc = "wait"
  /\ k_events' = Append(k_events, "wait")
  /\ k_timedout' = (k_proc[k_dev] = "unresponsive")
  /\ k_proc' = [k_proc EXCEPT ![k_dev] =
                  IF @ = "responsive" THEN "terminated" ELSE @]
  /\ k_pc' = IF KillNeeded(k_proc[k_dev] = "unresponsive") THEN "kill" ELSE "cleanup"
  /\ UNCHANGED <<k_entries, k_logs, k_work, k_dev, k_rmfailed>>
  /\ UNCHANGED startVars
  /\ UNCHANGED StopOthers

\* process.kill()
StopKill ==
  /\ k_pc = "kill"
  /\ k_events' = Append(k_events, "kill")
  /\ k_proc' = [k_proc EXCEPT ![k_dev] = IF @ \in LiveProc THEN "killed" ELSE @]
  /\ k_pc' = "cleanup"
  /\ UNCHANGED <<k_entries, k_logs, k_work, k_dev, k_timedout, k_rmfailed>>
  /\ UNCHANGED startVars
  /\ UNCHANGED StopOthers

\* `if ... os.path.exists(process.work_dir)`: shutil.rmtree, a failure of
\* which is logged as a warning; then `del running_processes[device_id]`
StopCleanup ==
  /\ k_pc = "cleanup"
  /\ IF k_work[k_dev]
     THEN \E removed \in BOOLEAN :
            /\ k_work' = [k_work EXCEPT ![k_dev] = ~removed]
            /\ k_rmfailed' = ~removed
            /\ k_events' = Append(k_events, "rmtree")
     ELSE UNCHANGED <<k_work, k_rmfailed, k_events>>
  /\ k_entries' = k_entries \ {k_dev}
  /\ k_pc' = "returned"
  /\ UNCHANGED <<k_proc, k_logs, k_dev, k_timedout>>
  /\ UNCHANGED startVars
  /\ UNCHANGED StopOthers

\* start_gitlab_controller(device_id, device) as poll_and_update's second
\* loop uses it: None when the device has an entry, otherwise the workspace
\* is set up, the log files are opened, the process is spawned and returned,
\* and the caller registers it
StartCall ==
  /\ k_pc \in {"idle", "returned", "raised"}
  /\ \E d \in Devices, st \in LiveProc :
       IF d \in k_entries
       THEN /\ k_result' = "None"
            /\ k_seen' = [k_seen EXCEPT !["already"] = @ \cup {"None"}]
            /\ UNCHANGED <<k_entries, k_proc, k_logs, k_work>>
       ELSE /\ k_work' = [k_work EXCEPT ![d] = TRUE]
            /\ k_logs' = [k_logs EXCEPT ![d] = TRUE]
            /\ k_proc' = [k_proc EXCEPT ![d] = st]
            /\ k_entries' = k_entries \cup {d}
            /\ k_result' = "Popen"
            /\ k_seen' = [k_seen EXCEPT !["fresh"] = @ \cup {"Popen"}]
  /\ k_pc' = "idle" /\ k_events' = <<>>
  /\ UNCHANGED <<k_dev, k_timedout, k_rmfailed>>
  /\ UNCHANGED StopOthers

\* start_gitlab_controller: an exception (workspace setup, opening the log
\* files, Popen) is logged and None is returned
StartFails ==
  /\ k_pc \in {"idle", "returned", "raised"}
  /\ \E d \in Devices \ k_entries, created \in BOOLEAN :
       k_work' = [k_work EXCEPT ![d] = @ \/ created]
  /\ k_result' = "None"
  /\ k_seen' = [k_seen EXCEPT !["error"] = @ \cup {"None"}]
  /\ k_pc' = "idle" /\ k_events' = <<>>
  /\ UNCHANGED <<k_entries, k_proc, k_logs, k_dev, k_timedout, k_rmfailed>>
  /\ UNCHANGED StopOthers

NextStop ==
  \/ StopCall
  \/ StopCloseLogs
  \/ StopRaises
  \/ StopTerminate
  \/ StopWait
  \/ StopKill
  \/ StopCleanup
  \/ StartCall
  \/ StartFails

----------------------------------------------------------------------------
(* utils/git_utils.py: verify_device_changes as a function of the directory *)
(* it is given, and what clone_or_pull_repo and its caller do with the      *)
(* result.                                                                  *)

VerifyTrees ==
  [pkg : BOOLEAN, req : BOOLEAN, idx : BOOLEAN, cfg : {"absent", "valid", "invalid"}]

GitStatusOutcomes == {"ok", "nonzero", "oserror"}

\* repo_type, by the first marker file found
RepoType(t) ==
  IF t.pkg THEN "nodejs"
  ELSE IF t.req THEN "python"
  ELSE IF t.idx THEN "web"
  ELSE "generic"

VerifyReraises(status) == status = "oserror"

\* `except Exception as e: ... return False`: nothing leaves the function as
\* an exception
VerifyRaises(status) == FALSE

VerifyResult(t, gitdir, status, readable) ==
  IF VerifyRaises(status) THEN "raised"
  ELSE IF VerifyTree(t, gitdir, status = "ok", readable) THEN "True"
  ELSE "False"

VerifyInputs ==
  /\ v_tree \in VerifyTrees
  /\ v_gitdir \in BOOLEAN
  /\ v_status \in GitStatusOutcomes
  /\ v_readable \in BOOLEAN
  /\ v_bpath \in BOOLEAN

VerifyIdle ==
  /\ v_tree = [pkg |-> FALSE, req |-> FALSE, idx |-> FALSE, cfg |-> "absent"]
  /\ v_gitdir = FALSE /\ v_status = "ok" /\ v_readable = FALSE /\ v_bpath = FALSE
  /\ v_pc = "off" /\ v_result = "none" /\ v_restore = "none" /\ v_syncout = "none"

VerifyInit ==
  /\ VerifyInputs
  /\ v_pc = "call" /\ v_result = "none" /\ v_restore = "none" /\ v_syncout = "none"

\* verify_device_changes(device_id, repo_dir)
VerifyCall ==
  /\ v_pc = "call"
  /\ v_result' = VerifyResult(v_tree, v_gitdir, v_status, v_readable)
  /\ v_pc' = "returned"
  /\ UNCHANGED <<v_tree, v_gitdir, v_status, v_readable, v_bpath, v_restore, v_syncout>>
  /\ UNCHANGED VerifyOthers

\* clone_or_pull_repo: `if not verify_device_changes(...)`: restore the backup
\* if one was taken, and return; an exception goes through the inner except,
\* which restores too and re-raises
VerifyCallerReacts ==
  /\ v_pc = "returned"
  /\ v_restore' = IF v_result # "True" /\ v_bpath THEN "clone_or_pull_repo" ELSE "none"
  /\ v_syncout' = IF v_result = "raised" THEN "raised" ELSE "returned"
  /\ v_pc' = "synced"
  /\ UNCHANGED <<v_tree, v_gitdir, v_status, v_readable, v_bpath, v_result>>
  /\ UNCHANGED VerifyOthers

\* force_refresh and monitor_gitlab_changes: the call is over; neither looks
\* at the workspace or at the backups
VerifySyncCaller ==
  /\ v_pc = "synced"
  /\ v_pc' = "over"
  /\ UNCHANGED <<v_tree, v_gitdir, v_status, v_readable, v_bpath, v_result,
                 v_restore, v_syncout>>
  /\ UNCHANGED VerifyOthers

\* the next sync finds another directory
VerifyAgain ==
  /\ v_pc = "over"
  /\ v_tree' \in VerifyTrees
  /\ v_gitdir' \in BOOLEAN
  /\ v_status' \in GitStatusOutcomes
  /\ v_readable' \in BOOLEAN
  /\ v_bpath' \in BOOLEAN
  /\ v_pc' = "call" /\ v_result' = "none" /\ v_restore' = "none" /\ v_syncout' = "none"
  /\ UNCHANGED VerifyOthers

NextVerify ==
  \/ VerifyCall
  \/ VerifyCallerReacts
  \/ VerifySyncCaller
  \/ VerifyAgain

----------------------------------------------------------------------------
(* final-device-script.py: DeviceManager.run, check_github_updates and      *)
(* download_github_file, for the one monitored file of the device.          *)

MaxSha == 4          \* commits are numbered 1..MaxSha

\* `if last_known_sha != latest_sha`
NewCommitDetected(last_known_sha, latest_sha) == last_known_sha # latest_sha

UpdIdle ==
  /\ u_github = 0 /\ u_known = 0 /\ u_local = 0 /\ u_pc = "off" /\ u_updates = FALSE

\* run() after fetch_device_config: a new device, or one that an earlier run
\* left up to date
UpdInit ==
  /\ u_github = 1
  /\ \/ u_known = 0 /\ u_local = 0
     \/ u_known = 1 /\ u_local = 1
  /\ u_pc = "sleep" /\ u_updates = FALSE

\* A commit is pushed to the branch
GithubCommit ==
  /\ u_github < MaxSha
  /\ u_github' = u_github + 1
  /\ UNCHANGED <<u_known, u_local, u_pc, u_updates>>
  /\ UNCHANGED UpdOthers

\* check_github_updates with the commit API answering 200: a new commit is
\* recorded in the registry (update_last_commit_sha, whose failure is only
\* printed) in the same pass that reports it
CheckUpdates ==
  /\ u_pc = "sleep"
  /\ \E readok \in BOOLEAN, writeok \in BOOLEAN :
       LET last_known_sha == IF readok THEN u_known ELSE 0 IN
       IF NewCommitDetected(last_known_sha, u_github)
       THEN /\ u_updates' = TRUE
            /\ u_known' = IF writeok THEN u_github ELSE u_known
       ELSE /\ u_updates' = FALSE
            /\ UNCHANGED u_known
  /\ u_pc' = "checked"
  /\ UNCHANGED <<u_github, u_local>>
  /\ UNCHANGED UpdOthers

\* check_github_updates: status code other than 200, or an exception: {}
CheckUpdatesFails ==
  /\ u_pc = "sleep"
  /\ u_updates' = FALSE
  /\ u_pc' = "checked"
  /\ UNCHANGED <<u_github, u_known, u_local>>
  /\ UNCHANGED UpdOthers

\* run: `if needs_update:` download_github_file writes the file
DownloadFile ==
  /\ u_pc = "checked" /\ u_updates
  /\ u_local' = u_github
  /\ u_pc' = "sleep" /\ u_updates' = FALSE
  /\ UNCHANGED <<u_github, u_known>>
  /\ UNCHANGED UpdOthers

\* download_github_file returns False (status code, or an exception before
\* the file is written): run prints "Failed to update" and goes on
DownloadFails ==
  /\ u_pc = "checked" /\ u_updates
  /\ u_pc' = "sleep" /\ u_updates' = FALSE
  /\ UNCHANGED <<u_github, u_known, u_local>>
  /\ UNCHANGED UpdOthers

\* run: nothing to update in this pass
NoUpdate ==
  /\ u_pc = "checked" /\ ~u_updates
  /\ u_pc' = "sleep"
  /\ UNCHANGED <<u_github, u_known, u_local, u_updates>>
  /\ UNCHANGED UpdOthers

NextUpd ==
  \/ GithubCommit
  \/ CheckUpdates
  \/ CheckUpdatesFails
  \/ DownloadFile
  \/ DownloadFails
  \/ NoUpdate

----------------------------------------------------------------------------
(* utils/security_utils.py validate_input(device_id, pattern_name=          *)
(* 'device_id') as called first thing by update_device_status, start_device *)
(* and stop_device (utils/device_manager.py) and force_refresh              *)
(* (utils/workspace_utils.py), all called with one device ID.               *)

MaxIdLen == 2        \* device IDs of up to MaxIdLen characters

StatusMaxAttempts == 3    \* update_device_status: @RetryUtils.with_retries(max_attempts=3)

\* a word character, a hyphen, a blank, a newline
IdChars == {"a", "-", " ", "nl"}

DeviceIdInputs == UNION {[1..n -> IdChars] : n \in 0..MaxIdLen}

\* re.match(r'^[\w\-]+$', value): `$` also matches before a trailing newline
MatchesDeviceId(v) ==
  LET n == IF Len(v) > 0 /\ v[Len(v)] = "nl" THEN Len(v) - 1 ELSE Len(v)
  IN n >= 1 /\ \A k \in 1..n : v[k] \in {"a", "-"}

ValidatedOps == {"update_device_status", "force_refresh", "start_device", "stop_device"}

\* the operations decorated with @RetryUtils.with_retries(max_attempts=3),
\* whose `exceptions` default is Exception
RetriedOps == {"update_device_status", "force_refresh"}

ValIdle ==
  /\ i_op = "none" /\ i_id = <<>> /\ i_pc = "off" /\ i_attempt = 0 /\ i_inner = 0
  /\ i_calls = 0 /\ i_slept = 0 /\ i_writes = 0 /\ i_err = "none"

ValInit ==
  /\ i_op = "none" /\ i_id = <<>> /\ i_pc = "idle" /\ i_attempt = 0 /\ i_inner = 0
  /\ i_calls = 0 /\ i_slept = 0 /\ i_writes = 0 /\ i_err = "none"

\* One of the operations is called
ValCall ==
  /\ i_pc = "idle"
  /\ i_op' \in ValidatedOps
  /\ i_id' \in DeviceIdInputs
  /\ i_pc' = "validate"
  /\ i_attempt' = 0 /\ i_inner' = 0 /\ i_calls' = 0 /\ i_slept' = 0
  /\ i_writes' = 0 /\ i_err' = "none"
  /\ UNCHANGED ValOthers

\* validate_input accepts the ID: the operation goes on to its registry write
ValAccepted ==
  /\ i_pc = "validate" /\ MatchesDeviceId(i_id)
  /\ i_calls' = i_calls + 1
  /\ i_writes' = i_writes + 1
  /\ i_pc' = "returned"
  /\ UNCHANGED <<i_op, i_id, i_attempt, i_inner, i_slept, i_err>>
  /\ UNCHANGED ValOthers

\* validate_input raises ValueError.  start_device and stop_device log and
\* re-raise; the wrapper of update_device_status sleeps and calls again, or
\* raises RetryError; force_refresh's except clause calls
\* update_device_status(device_id, 'ERROR', ...) before it re-raises
ValRejected ==
  /\ i_pc = "validate" /\ ~MatchesDeviceId(i_id)
  /\ i_calls' = i_calls + 1
  /\ CASE i_op \in {"start_device", "stop_device"} ->
            /\ i_err' = "ValueError" /\ i_pc' = "raised"
            /\ UNCHANGED <<i_attempt, i_inner, i_slept>>
       [] i_op = "update_device_status" ->
            IF HasNextAttempt(i_attempt, StatusMaxAttempts)
            THEN /\ i_slept' = i_slept + WaitTime(SyncRetryDelay, i_attempt)
                 /\ i_attempt' = i_attempt + 1
                 /\ UNCHANGED <<i_pc, i_inner, i_err>>
            ELSE /\ i_err' = "RetryError" /\ i_pc' = "raised"
                 /\ UNCHANGED <<i_attempt, i_inner, i_slept>>
       [] i_op = "force_refresh" ->
            /\ i_pc' = "except" /\ i_inner' = 0
            /\ UNCHANGED <<i_attempt, i_slept, i_err>>
  /\ UNCHANGED <<i_op, i_id, i_writes>>
  /\ UNCHANGED ValOthers

\* force_refresh's except clause: one attempt of update_device_status on the
\* same ID.  Its RetryError leaves force_refresh, whose own wrapper then
\* sleeps and calls force_refresh again, or raises RetryError
ValExceptStatus ==
  /\ i_pc = "except" /\ ~MatchesDeviceId(i_id)
  /\ i_calls' = i_calls + 1
  /\ IF HasNextAttempt(i_inner, StatusMaxAttempts)
     THEN /\ i_slept' = i_slept + WaitTime(SyncRetryDelay, i_inner)
          /\ i_inner' = i_inner + 1
          /\ UNCHANGED <<i_pc, i_attempt, i_err>>
     ELSE IF HasNextAttempt(i_attempt, RefreshMaxAttempts)
          THEN /\ i_slept' = i_slept + WaitTime(SyncRetryDelay, i_attempt)
               /\ i_attempt' = i_attempt + 1
               /\ i_pc' = "validate"
               /\ UNCHANGED <<i_inner, i_err>>
          ELSE /\ i_err' = "RetryError" /\ i_pc' = "raised"
               /\ UNCHANGED <<i_attempt, i_inner, i_slept>>
  /\ UNCHANGED <<i_op, i_id, i_writes>>
  /\ UNCHANGED ValOthers

\* The call is over
ValReturn ==
  /\ i_pc \in {"returned", "raised"}
  /\ i_op' = "none" /\ i_id' = <<>> /\ i_pc' = "idle"
  /\ i_attempt' = 0 /\ i_inner' = 0 /\ i_calls' = 0 /\ i_slept' = 0
  /\ i_writes' = 0 /\ i_err' = "none"
  /\ UNCHANGED ValOthers

NextVal ==
  \/ ValCall
  \/ ValAccepted
  \/ ValRejected
  \/ ValExceptStatus
  \/ ValReturn

----------------------------------------------------------------------------
(* The statements that write the devices table:                             *)
(* supabase.table('devices').update({...}).eq('id', device_id).execute()    *)
(* in utils/device_manager.py, device_api.py and                            *)
(* gitlab_connection_manager.py.                                            *)

MaxRegTime == 2      \* the wall clock runs over 0..MaxRegTime

RegShas == 1..2

\* .update(fields).eq('id', d): the row of d gets the fields given, every
\* other column and every other row stays
RegUpdate(rows, d, fields) ==
  [rows EXCEPT ![d] = [c \in DOMAIN rows[d] |->
                         IF c \in DOMAIN fields THEN fields[c] ELSE rows[d][c]]]

RegIdle ==
  /\ w_now = 0
  /\ w_rows = [d \in Devices |-> [status |-> "OFFLINE", sha |-> 0, updated_at |-> 0]]

\* the rows as they are when the devices are created
RegInit ==
  /\ w_now = 0
  /\ w_rows = [d \in Devices |-> [status |-> "OFFLINE", sha |-> 0, updated_at |-> 0]]

RegTick ==
  /\ w_now < MaxRegTime
  /\ w_now' = w_now + 1
  /\ UNCHANGED w_rows
  /\ UNCHANGED RegOthers

\* utils/device_manager.py update_device_status: update_data = {'status': status}
ManagerWritesStatus ==
  /\ \E d \in Devices, s \in Statuses :
       w_rows' = RegUpdate(w_rows, d, [status |-> s])
  /\ UNCHANGED w_now
  /\ UNCHANGED RegOthers

\* device_api.py update_device_status: update_data = {'status': status}
ApiWritesStatus ==
  /\ \E d \in Devices, s \in Statuses :
       w_rows' = RegUpdate(w_rows, d, [status |-> s])
  /\ UNCHANGED w_now
  /\ UNCHANGED RegOthers

\* device_api.py clone_or_pull_repo: update({'last_commit_sha': commit_sha})
SyncWritesSha ==
  /\ \E d \in Devices, c \in RegShas :
       w_rows' = RegUpdate(w_rows, d, [sha |-> c])
  /\ UNCHANGED w_now
  /\ UNCHANGED RegOthers

\* GitLabConnectionManager.update_device_status: status and updated_at
ConnectionWritesStatus ==
  /\ \E d \in Devices, s \in Statuses :
       w_rows' = RegUpdate(w_rows, d, [status |-> s, updated_at |-> w_now])
  /\ UNCHANGED w_now
  /\ UNCHANGED RegOthers

\* GitLabConnectionManager.update_commit_hash: last_commit_sha, updated_at
\* and status ONLINE
ConnectionWritesSha ==
  /\ \E d \in Devices, c \in RegShas :
       w_rows' = RegUpdate(w_rows, d,
                           [sha |-> c, updated_at |-> w_now, status |-> "ONLINE"])
  /\ UNCHANGED w_now
  /\ UNCHANGED RegOthers

NextReg ==
  \/ RegTick
  \/ ManagerWritesStatus
  \/ ApiWritesStatus
  \/ SyncWritesSha
  \/ ConnectionWritesStatus
  \/ ConnectionWritesSha

----------------------------------------------------------------------------
(* GitLab monitor loop: templates/gitlab-device-script.py GitLabMonitor,
   and GitLabController.run up to the point where it enters its loop *)

MaxGitlabCommit == 3      \* commits of the file pushed to the branch

GitlabCommits == 1..MaxGitlabCommit

CtlKinds == {"monitor", "controller"}

\* The status written once download and copy have returned: ONLINE 'Update
\* successful' or ERROR 'Failed to download or copy file'
FinalStatusLeavesUpdating(ok) == IF ok THEN "ONLINE" ELSE "UPDATING"

FinalStatus(ok) == IF ok THEN "ONLINE" ELSE "ERROR"

\* ota_manager.configure(repo_path=...) against the signature
\* configure(repo_url, repo_branch, gitlab_token, gitlab_username,
\* repo_paths, check_interval): the keyword is not accepted, the TypeError is
\* caught by _configure_components, which returns False
ConfigureComponents == FALSE

CtlIdle ==
  /\ c_kind = "monitor"
  /\ c_pc = "start"
  /\ c_remote = 1
  /\ c_known = 0
  /\ c_latest = 0
  /\ c_clone = 0
  /\ c_file = 0
  /\ c_status = "OFFLINE"
  /\ c_sha = 0
  /\ c_events = <<>>

\* A device whose program has not written anything yet; a .last_commit file
\* may be left from an earlier run
CtlInit ==
  /\ c_kind \in CtlKinds
  /\ c_pc = "start"
  /\ c_remote \in GitlabCommits
  /\ c_known \in 0..c_remote
  /\ c_latest = 0
  /\ c_clone = 0
  /\ c_file = c_known
  /\ c_status = "OFFLINE"
  /\ c_sha = c_known
  /\ c_events = <<>>

\* A commit touching the file is pushed to the branch
GitlabPush ==
  /\ c_pc # "exited"
  /\ c_remote < MaxGitlabCommit
  /\ c_remote' = c_remote + 1
  /\ UNCHANGED <<c_kind, c_pc, c_known, c_latest, c_clone, c_file, c_status, c_sha, c_events>>
  /\ UNCHANGED CtlOthers

\* monitor(): update_device_status('ONLINE', 'Monitor started'), then the loop
MonitorStart ==
  /\ c_kind = "monitor" /\ c_pc = "start"
  /\ c_status' = "ONLINE"
  /\ c_pc' = "poll"
  /\ UNCHANGED <<c_kind, c_remote, c_known, c_latest, c_clone, c_file, c_sha, c_events>>
  /\ UNCHANGED CtlOthers

\* check_and_update: latest_commit = get_latest_commit_hash(), None when git
\* ls-remote, fetch or log fails
GetLatestCommitHash ==
  /\ c_kind = "monitor" /\ c_pc = "poll"
  /\ c_latest' \in {0, c_remote}
  /\ c_events' = Append(c_events, "check")
  /\ c_pc' = "checked"
  /\ UNCHANGED <<c_kind, c_remote, c_known, c_clone, c_file, c_status, c_sha>>
  /\ UNCHANGED CtlOthers

\* if not latest_commit: update_device_status('ERROR', ...); return False
CheckFailed ==
  /\ c_pc = "checked" /\ c_latest = 0
  /\ c_status' = "ERROR"
  /\ c_events' = Append(c_events, "ERROR")
  /\ c_pc' = "sleep"
  /\ UNCHANGED <<c_kind, c_remote, c_known, c_latest, c_clone, c_file, c_sha>>
  /\ UNCHANGED CtlOthers

\* latest_commit == last_commit: update_device_status('ONLINE', 'No updates needed')
NoUpdatesFound ==
  /\ c_pc = "checked" /\ c_latest # 0 /\ c_latest = c_known
  /\ c_status' = "ONLINE"
  /\ c_events' = Append(c_events, "ONLINE")
  /\ c_pc' = "sleep"
  /\ UNCHANGED <<c_kind, c_remote, c_known, c_latest, c_clone, c_file, c_sha>>
  /\ UNCHANGED CtlOthers

\* latest_commit != last_commit: update_device_status('UPDATING', 'Downloading updates')
WriteUpdating ==
  /\ c_pc = "checked" /\ c_latest # 0 /\ c_latest # c_known
  /\ c_status' = "UPDATING"
  /\ c_events' = Append(c_events, "UPDATING")
  /\ c_pc' = "download"
  /\ UNCHANGED <<c_kind, c_remote, c_known, c_latest, c_clone, c_file, c_sha>>
  /\ UNCHANGED CtlOthers

\* download_single_file(): removes the clone directory, then sparse checkout
\* of the branch head; False on any failure
DownloadSingleFile ==
  /\ c_pc = "download"
  /\ c_events' = Append(c_events, "download")
  /\ \E ok \in BOOLEAN :
       /\ c_clone' = IF ok THEN c_remote ELSE 0
       /\ c_pc' = IF ok THEN "copy" ELSE "failed"
  /\ UNCHANGED <<c_kind, c_remote, c_known, c_latest, c_file, c_status, c_sha>>
  /\ UNCHANGED CtlOthers

\* `if self.download_single_file() and self.copy_file(): save_last_commit(...)`:
\* the step taken once copy_file has returned `copied`
AfterCopySavesAnyway(copied) == "record"

AfterCopy(copied) == IF copied THEN "record" ELSE "failed"

\* copy_file(): cp of the checked-out file to the destination; False on failure
CopyFile ==
  /\ c_pc = "copy"
  /\ c_events' = Append(c_events, "copy")
  /\ \E ok \in BOOLEAN :
       /\ c_file' = IF ok THEN c_clone ELSE c_file
       /\ c_pc' = AfterCopy(ok)
  /\ UNCHANGED <<c_kind, c_remote, c_known, c_latest, c_clone, c_status, c_sha>>
  /\ UNCHANGED CtlOthers

\* save_last_commit(latest_commit): .last_commit, then the registry row
\* (last_commit_sha, updated_at, status ONLINE)
SaveLastCommit ==
  /\ c_pc = "record"
  /\ c_known' = c_latest
  /\ c_sha' = c_latest
  /\ c_status' = "ONLINE"
  /\ c_events' = Append(c_events, "record")
  /\ c_pc' = "final"
  /\ UNCHANGED <<c_kind, c_remote, c_latest, c_clone, c_file>>
  /\ UNCHANGED CtlOthers

\* update_device_status('ONLINE', 'Update successful')
UpdateSuccessful ==
  /\ c_pc = "final"
  /\ c_status' = FinalStatus(TRUE)
  /\ c_events' = Append(c_events, FinalStatus(TRUE))
  /\ c_pc' = "sleep"
  /\ UNCHANGED <<c_kind, c_remote, c_known, c_latest, c_clone, c_file, c_sha>>
  /\ UNCHANGED CtlOthers

\* update_device_status('ERROR', 'Failed to download or copy file')
UpdateFailed ==
  /\ c_pc = "failed"
  /\ c_status' = FinalStatus(FALSE)
  /\ c_events' = Append(c_events, FinalStatus(FALSE))
  /\ c_pc' = "sleep"
  /\ UNCHANGED <<c_kind, c_remote, c_known, c_latest, c_clone, c_file, c_sha>>
  /\ UNCHANGED CtlOthers

\* time.sleep(check_interval), then the next pass of the loop
MonitorSleep ==
  /\ c_kind = "monitor" /\ c_pc = "sleep"
  /\ c_pc' = "poll"
  /\ c_latest' = 0
  /\ c_events' = <<>>
  /\ UNCHANGED <<c_kind, c_remote, c_known, c_clone, c_file, c_status, c_sha>>
  /\ UNCHANGED CtlOthers

\* The monitor installs no signal handler: an interrupt ends the process
\* where it stands, with no registry write
MonitorInterrupted ==
  /\ c_kind = "monitor" /\ c_pc \notin {"start", "exited"}
  /\ c_pc' = "exited"
  /\ UNCHANGED <<c_kind, c_remote, c_known, c_latest, c_clone, c_file, c_status, c_sha, c_events>>
  /\ UNCHANGED CtlOthers

\* GitLabController.run: update_device_status('ONLINE', 'Monitor started')
ControllerRun ==
  /\ c_kind = "controller" /\ c_pc = "start"
  /\ c_status' = "ONLINE"
  /\ c_pc' = "configure"
  /\ UNCHANGED <<c_kind, c_remote, c_known, c_latest, c_clone, c_file, c_sha, c_events>>
  /\ UNCHANGED CtlOthers

\* if not self._configure_components(): raise; the outer handler writes
\* ERROR and re-raises, so the while loop is not entered
ControllerConfigure ==
  /\ c_kind = "controller" /\ c_pc = "configure"
  /\ ~ConfigureComponents
  /\ c_status' = "ERROR"
  /\ c_pc' = "exited"
  /\ UNCHANGED <<c_kind, c_remote, c_known, c_latest, c_clone, c_file, c_sha, c_events>>
  /\ UNCHANGED CtlOthers

\* _signal_handler -> stop(): running = False, OFFLINE, sys.exit(0)
SignalHandler ==
  /\ c_kind = "controller" /\ c_pc # "exited"
  /\ c_status' = "OFFLINE"
  /\ c_pc' = "exited"
  /\ UNCHANGED <<c_kind, c_remote, c_known, c_latest, c_clone, c_file, c_sha, c_events>>
  /\ UNCHANGED CtlOthers

NextCtl ==
  \/ GitlabPush
  \/ MonitorStart
  \/ GetLatestCommitHash
  \/ CheckFailed
  \/ NoUpdatesFound
  \/ WriteUpdating
  \/ DownloadSingleFile
  \/ CopyFile
  \/ SaveLastCommit
  \/ UpdateSuccessful
  \/ UpdateFailed
  \/ MonitorSleep
  \/ MonitorInterrupted
  \/ ControllerRun
  \/ ControllerConfigure
  \/ SignalHandler

----------------------------------------------------------------------------
(* Start requests for one device: app.py start_controller and
   run_controller, device_api.py start_device *)

StartRequests == {"r1", "r2", "r3"}

StartServers == {"app", "api"}

\* GitLabController(SUPABASE_URL, SUPABASE_KEY, device_id, device_token)
\* against __init__(self, supabase_url, supabase_key, device_id,
\* device_token, work_dir): the call lacks work_dir and raises TypeError
ControllerConstructed == FALSE

\* `if device_id in controllers` (app.py) / `if device_id in
\* running_controllers` (device_api.py)
AlreadyRunning(server, controllers, running) ==
  IF server = "app" THEN controllers # {} ELSE running

StartReqIdle ==
  /\ q_server = "app"
  /\ q_pc = [r \in StartRequests |-> "idle"]
  /\ q_answer = [r \in StartRequests |-> "none"]
  /\ q_thread = [r \in StartRequests |-> "none"]
  /\ q_controllers = {}
  /\ q_running = FALSE

StartReqInit ==
  /\ q_server \in StartServers
  /\ q_pc = [r \in StartRequests |-> "idle"]
  /\ q_answer = [r \in StartRequests |-> "none"]
  /\ q_thread = [r \in StartRequests |-> "none"]
  /\ q_controllers = {}
  /\ q_running = FALSE

\* The handler evaluates the already-running test
StartCheck(r) ==
  /\ q_pc[r] = "idle"
  /\ IF AlreadyRunning(q_server, q_controllers, q_running)
       THEN /\ q_answer' = [q_answer EXCEPT ![r] = "already"]
            /\ q_pc' = [q_pc EXCEPT ![r] = "done"]
       ELSE /\ q_pc' = [q_pc EXCEPT ![r] = "checked"]
            /\ UNCHANGED q_answer
  /\ UNCHANGED <<q_server, q_thread, q_controllers, q_running>>
  /\ UNCHANGED StartReqOthers

\* app.py start_controller: threading.Thread(target=run_controller).start(),
\* then 'Controller started successfully'
AppStartThread(r) ==
  /\ q_server = "app" /\ q_pc[r] = "checked"
  /\ q_thread' = [q_thread EXCEPT ![r] = "constructing"]
  /\ q_answer' = [q_answer EXCEPT ![r] = "started"]
  /\ q_pc' = [q_pc EXCEPT ![r] = "done"]
  /\ UNCHANGED <<q_server, q_controllers, q_running>>
  /\ UNCHANGED StartReqOthers

\* app.py run_controller: the constructor call, controllers[device_id] =
\* controller when it returns, the except clause when it raises
RunController(r) ==
  /\ q_thread[r] = "constructing"
  /\ IF ControllerConstructed
       THEN /\ q_controllers' = q_controllers \cup {r}
            /\ q_thread' = [q_thread EXCEPT ![r] = "running"]
       ELSE /\ q_controllers' = {}
            /\ q_thread' = [q_thread EXCEPT ![r] = "failed"]
  /\ UNCHANGED <<q_server, q_pc, q_answer, q_running>>
  /\ UNCHANGED StartReqOthers

\* device_api.py start_device: setup_device_workspace and the initial
\* clone_or_pull_repo; an exception of setup_device_workspace answers 500
ApiStartSetup(r) ==
  /\ q_server = "api" /\ q_pc[r] = "checked"
  /\ \E ok \in BOOLEAN :
       IF ok THEN /\ q_pc' = [q_pc EXCEPT ![r] = "setup"]
                  /\ UNCHANGED q_answer
             ELSE /\ q_pc' = [q_pc EXCEPT ![r] = "done"]
                  /\ q_answer' = [q_answer EXCEPT ![r] = "error"]
  /\ UNCHANGED <<q_server, q_thread, q_controllers, q_running>>
  /\ UNCHANGED StartReqOthers

\* device_api.py start_device: running_controllers[device_id] = True,
\* ONLINE, 'Started controller for device ...'
ApiStartMark(r) ==
  /\ q_server = "api" /\ q_pc[r] = "setup"
  /\ q_running' = TRUE
  /\ q_answer' = [q_answer EXCEPT ![r] = "started"]
  /\ q_pc' = [q_pc EXCEPT ![r] = "done"]
  /\ UNCHANGED <<q_server, q_thread, q_controllers>>
  /\ UNCHANGED StartReqOthers

NextStartReq ==
  \/ \E r \in StartRequests : StartCheck(r)
  \/ \E r \in StartRequests : AppStartThread(r)
  \/ \E r \in StartRequests : RunController(r)
  \/ \E r \in StartRequests : ApiStartSetup(r)
  \/ \E r \in StartRequests : ApiStartMark(r)

----------------------------------------------------------------------------
(* utils/workspace_backup_utils.py create_backup: `while len(backups) > 5`,
   with the removal of a directory able to fail *)

PruneIdle ==
  /\ x_dirs = {}
  /\ x_locked = {}
  /\ x_list = <<>>
  /\ x_pc = "off"
  /\ x_warned = FALSE

\* Earlier calls left at most KeepBackups directories
PruneInit ==
  /\ x_dirs \in SUBSET Timestamps
  /\ Cardinality(x_dirs) <= KeepBackups
  /\ x_locked \in SUBSET x_dirs
  /\ x_list = <<>>
  /\ x_pc = "idle"
  /\ x_warned = FALSE

\* The permissions of a backup directory are changed between two calls
PermissionChange ==
  /\ x_pc = "idle"
  /\ \E d \in x_dirs :
       x_locked' = IF d \in x_locked THEN x_locked \ {d} ELSE x_locked \cup {d}
  /\ UNCHANGED <<x_dirs, x_list, x_pc, x_warned>>
  /\ UNCHANGED PruneOthers

\* create_backup: the new directory is copied, then
\* backups = sorted(os.listdir(backups_dir))
PruneList ==
  /\ x_pc = "idle"
  /\ \E t \in Timestamps :
       /\ \A d \in x_dirs : d <= t
       /\ t \notin x_locked
       /\ x_dirs' = x_dirs \cup {t}
       /\ x_list' = SortedTs(x_dirs \cup {t})
  /\ x_pc' = "loop"
  /\ x_warned' = FALSE
  /\ UNCHANGED x_locked
  /\ UNCHANGED PruneOthers

\* Loop body, rmtree succeeds: shutil.rmtree(oldest_backup); backups.pop(0)
PruneRemove ==
  /\ x_pc = "loop"
  /\ PruneNeeded(x_list)
  /\ Head(x_list) \notin x_locked
  /\ x_dirs' = x_dirs \ {Head(x_list)}
  /\ x_list' = Tail(x_list)
  /\ UNCHANGED <<x_locked, x_pc, x_warned>>
  /\ UNCHANGED PruneOthers

\* Loop body, rmtree raises: backups.pop(0) is not reached
PruneRemoveFails ==
  /\ x_pc = "loop"
  /\ PruneNeeded(x_list)
  /\ Head(x_list) \in x_locked
  /\ x_pc' = "except"
  /\ UNCHANGED <<x_dirs, x_locked, x_list, x_warned>>
  /\ UNCHANGED PruneOthers

\* The except clause logs a warning and the loop condition is evaluated again
PruneLogWarning ==
  /\ x_pc = "except"
  /\ x_warned' = TRUE
  /\ x_pc' = "loop"
  /\ UNCHANGED <<x_dirs, x_locked, x_list>>
  /\ UNCHANGED PruneOthers

\* `while len(backups) > 5` is false: return backup_path
PruneReturn ==
  /\ x_pc = "loop"
  /\ ~PruneNeeded(x_list)
  /\ x_pc' = "ret"
  /\ UNCHANGED <<x_dirs, x_locked, x_list, x_warned>>
  /\ UNCHANGED PruneOthers

\* The caller goes on; the next create_backup starts from the directory as it is
PruneAgain ==
  /\ x_pc = "ret"
  /\ x_pc' = "idle"
  /\ x_list' = <<>>
  /\ x_warned' = FALSE
  /\ UNCHANGED <<x_dirs, x_locked>>
  /\ UNCHANGED PruneOthers

\* The steps of a create_backup call under way
PruneStep == PruneRemove \/ PruneRemoveFails \/ PruneLogWarning \/ PruneReturn

NextPrune ==
  \/ PermissionChange
  \/ PruneList
  \/ PruneRemove
  \/ PruneRemoveFails
  \/ PruneLogWarning
  \/ PruneReturn
  \/ PruneAgain

----------------------------------------------------------------------------
(* utils/workspace_utils.py force_refresh: the status writes around
   clone_or_pull_repo. update_device_status raises when the registry update
   fails on each of its own attempts; the row is then unchanged. *)

\* The status force_refresh writes last: ONLINE before `return`, ERROR in the
\* except clause before `raise`
RefreshStatusAlwaysOnline(raised) == "ONLINE"

RefreshStatus(raised) == IF raised THEN "ERROR" ELSE "ONLINE"

RefreshStatusIdle ==
  /\ h_pc = "off"
  /\ h_attempt = 0
  /\ h_status = "OFFLINE"
  /\ h_updating = FALSE
  /\ h_lastatt = "none"
  /\ h_lastok = "none"

RefreshStatusInit ==
  /\ h_pc = "idle"
  /\ h_attempt = 0
  /\ h_status \in Statuses
  /\ h_updating = FALSE
  /\ h_lastatt = "none"
  /\ h_lastok = "none"

\* One call of update_device_status(device_id, status, ...) by force_refresh:
\* the row is written when ok, left alone when the call raises
StatusWrite(status, ok) ==
  /\ h_lastatt' = status
  /\ h_lastok' = IF ok THEN status ELSE h_lastok
  /\ h_status' = IF ok THEN status ELSE h_status

\* The wrapper calls force_refresh for the first time
RefreshStatusCall ==
  /\ h_pc = "idle"
  /\ h_pc' = "lookup"
  /\ UNCHANGED <<h_attempt, h_status, h_updating, h_lastatt, h_lastok>>
  /\ UNCHANGED RefreshStatusOthers

\* validate_input, the devices query, the github_url test; any of them raising
\* goes to the except clause
RefreshLookup ==
  /\ h_pc = "lookup"
  /\ \E ok \in BOOLEAN : h_pc' = IF ok THEN "updating" ELSE "except"
  /\ UNCHANGED <<h_attempt, h_status, h_updating, h_lastatt, h_lastok>>
  /\ UNCHANGED RefreshStatusOthers

\* update_device_status(device_id, 'UPDATING', 'Force refreshing device files')
RefreshWriteUpdating ==
  /\ h_pc = "updating"
  /\ \E ok \in BOOLEAN :
       /\ StatusWrite("UPDATING", ok)
       /\ h_updating' = (h_updating \/ ok)
       /\ h_pc' = IF ok THEN "pull" ELSE "except"
  /\ UNCHANGED h_attempt
  /\ UNCHANGED RefreshStatusOthers

\* clone_or_pull_repo(...) returns, or raises RetryError
RefreshPull ==
  /\ h_pc = "pull"
  /\ \E ok \in BOOLEAN : h_pc' = IF ok THEN "online" ELSE "except"
  /\ UNCHANGED <<h_attempt, h_status, h_updating, h_lastatt, h_lastok>>
  /\ UNCHANGED RefreshStatusOthers

\* update_device_status(device_id, 'ONLINE', 'Device files refreshed');
\* return {'status': 'refreshed'}
RefreshWriteOnline ==
  /\ h_pc = "online"
  /\ \E ok \in BOOLEAN :
       /\ StatusWrite(RefreshStatus(FALSE), ok)
       /\ h_pc' = IF ok THEN "returned" ELSE "except"
  /\ UNCHANGED <<h_attempt, h_updating>>
  /\ UNCHANGED RefreshStatusOthers

\* except Exception as e: update_device_status(device_id, 'ERROR', str(e));
\* raise. When the ERROR write raises, its exception leaves force_refresh
RefreshExcept ==
  /\ h_pc = "except"
  /\ \E ok \in BOOLEAN : StatusWrite(RefreshStatus(TRUE), ok)
  /\ h_pc' = "raised"
  /\ UNCHANGED <<h_attempt, h_updating>>
  /\ UNCHANGED RefreshStatusOthers

\* with_retries around force_refresh: call it again, or RetryError
RefreshWrapper ==
  /\ h_pc = "raised"
  /\ IF HasNextAttempt(h_attempt, RefreshMaxAttempts)
       THEN /\ h_attempt' = h_attempt + 1
            /\ h_pc' = "lookup"
       ELSE /\ h_pc' = "failed"
            /\ UNCHANGED h_attempt
  /\ UNCHANGED <<h_status, h_updating, h_lastatt, h_lastok>>
  /\ UNCHANGED RefreshStatusOthers

\* The caller has the result or the RetryError
RefreshStatusReturn ==
  /\ h_pc \in {"returned", "failed"}
  /\ h_pc' = "idle"
  /\ h_attempt' = 0
  /\ h_updating' = FALSE
  /\ h_lastatt' = "none"
  /\ h_lastok' = "none"
  /\ UNCHANGED h_status
  /\ UNCHANGED RefreshStatusOthers

NextRefreshStatus ==
  \/ RefreshStatusCall
  \/ RefreshLookup
  \/ RefreshWriteUpdating
  \/ RefreshPull
  \/ RefreshWriteOnline
  \/ RefreshExcept
  \/ RefreshWrapper
  \/ RefreshStatusReturn

----------------------------------------------------------------------------
(* Specifications *)

InitRetry == RetryInit /\ SyncIdle /\ AtomIdle /\ GitIdle /\ SupIdle /\ MgrIdle /\ StopIdle /\ VerifyIdle /\ UpdIdle /\ ValIdle /\ RegIdle /\ CtlIdle /\ StartReqIdle /\ PruneIdle /\ RefreshStatusIdle
SpecRetry == InitRetry /\ [][NextRetry]_vars

InitSync == SyncInit /\ RetryIdle /\ AtomIdle /\ GitIdle /\ SupIdle /\ MgrIdle /\ StopIdle /\ VerifyIdle /\ UpdIdle /\ ValIdle /\ RegIdle /\ CtlIdle /\ StartReqIdle /\ PruneIdle /\ RefreshStatusIdle
SpecSync == InitSync /\ [][NextSync]_vars

\* Every caller that can take a step eventually takes one
SpecSyncFair == SpecSync /\ \A p \in Callers : WF_vars(CallerStep(p))

InitAtomic == AtomInit /\ RetryIdle /\ SyncIdle /\ GitIdle /\ SupIdle /\ MgrIdle /\ StopIdle /\ VerifyIdle /\ UpdIdle /\ ValIdle /\ RegIdle /\ CtlIdle /\ StartReqIdle /\ PruneIdle /\ RefreshStatusIdle
SpecAtomic == InitAtomic /\ [][NextAtomic]_vars

InitGit == GitInit /\ RetryIdle /\ SyncIdle /\ AtomIdle /\ SupIdle /\ MgrIdle /\ StopIdle /\ VerifyIdle /\ UpdIdle /\ ValIdle /\ RegIdle /\ CtlIdle /\ StartReqIdle /\ PruneIdle /\ RefreshStatusIdle
SpecGit == InitGit /\ [][NextGit]_vars

InitSup == SupInit /\ RetryIdle /\ SyncIdle /\ AtomIdle /\ GitIdle /\ MgrIdle /\ StopIdle /\ VerifyIdle /\ UpdIdle /\ ValIdle /\ RegIdle /\ CtlIdle /\ StartReqIdle /\ PruneIdle /\ RefreshStatusIdle
SpecSup == InitSup /\ [][NextSup]_vars

InitMgr == MgrInit /\ RetryIdle /\ SyncIdle /\ AtomIdle /\ GitIdle /\ SupIdle /\ StopIdle /\ VerifyIdle /\ UpdIdle /\ ValIdle /\ RegIdle /\ CtlIdle /\ StartReqIdle /\ PruneIdle /\ RefreshStatusIdle
SpecMgr == InitMgr /\ [][NextMgr]_vars

InitStop == StopInit /\ RetryIdle /\ SyncIdle /\ AtomIdle /\ GitIdle /\ SupIdle /\ MgrIdle /\ VerifyIdle /\ UpdIdle /\ ValIdle /\ RegIdle /\ CtlIdle /\ StartReqIdle /\ PruneIdle /\ RefreshStatusIdle
SpecStop == InitStop /\ [][NextStop]_vars

InitVerify == VerifyInit /\ RetryIdle /\ SyncIdle /\ AtomIdle /\ GitIdle /\ SupIdle /\ MgrIdle /\ StopIdle /\ UpdIdle /\ ValIdle /\ RegIdle /\ CtlIdle /\ StartReqIdle /\ PruneIdle /\ RefreshStatusIdle
SpecVerify == InitVerify /\ [][NextVerify]_vars

InitUpd == UpdInit /\ RetryIdle /\ SyncIdle /\ AtomIdle /\ GitIdle /\ SupIdle /\ MgrIdle /\ StopIdle /\ VerifyIdle /\ ValIdle /\ RegIdle /\ CtlIdle /\ StartReqIdle /\ PruneIdle /\ RefreshStatusIdle
SpecUpd == InitUpd /\ [][NextUpd]_vars

InitVal == ValInit /\ RetryIdle /\ SyncIdle /\ AtomIdle /\ GitIdle /\ SupIdle /\ MgrIdle /\ StopIdle /\ VerifyIdle /\ UpdIdle /\ RegIdle /\ CtlIdle /\ StartReqIdle /\ PruneIdle /\ RefreshStatusIdle
SpecVal == InitVal /\ [][NextVal]_vars

InitReg == RegInit /\ RetryIdle /\ SyncIdle /\ AtomIdle /\ GitIdle /\ SupIdle /\ MgrIdle /\ StopIdle /\ VerifyIdle /\ UpdIdle /\ ValIdle /\ CtlIdle /\ StartReqIdle /\ PruneIdle /\ RefreshStatusIdle
SpecReg == InitReg /\ [][NextReg]_vars

InitCtl == CtlInit /\ RetryIdle /\ SyncIdle /\ AtomIdle /\ GitIdle /\ SupIdle /\ MgrIdle /\ StopIdle /\ VerifyIdle /\ UpdIdle /\ ValIdle /\ RegIdle /\ StartReqIdle /\ PruneIdle /\ RefreshStatusIdle
SpecCtl == InitCtl /\ [][NextCtl]_vars

InitStartReq == StartReqInit /\ RetryIdle /\ SyncIdle /\ AtomIdle /\ GitIdle /\ SupIdle /\ MgrIdle /\ StopIdle /\ VerifyIdle /\ UpdIdle /\ ValIdle /\ RegIdle /\ CtlIdle /\ PruneIdle /\ RefreshStatusIdle
SpecStartReq == InitStartReq /\ [][NextStartReq]_vars

InitPrune == PruneInit /\ RetryIdle /\ SyncIdle /\ AtomIdle /\ GitIdle /\ SupIdle /\ MgrIdle /\ StopIdle /\ VerifyIdle /\ UpdIdle /\ ValIdle /\ RegIdle /\ CtlIdle /\ StartReqIdle /\ RefreshStatusIdle
SpecPrune == InitPrune /\ [][NextPrune]_vars
\* a call of create_backup that can take a step takes one
SpecPruneFair == SpecPrune /\ WF_vars(PruneStep)

InitRefreshStatus == RefreshStatusInit /\ RetryIdle /\ SyncIdle /\ AtomIdle /\ GitIdle /\ SupIdle /\ MgrIdle /\ StopIdle /\ VerifyIdle /\ UpdIdle /\ ValIdle /\ RegIdle /\ CtlIdle /\ StartReqIdle /\ PruneIdle
SpecRefreshStatus == InitRefreshStatus /\ [][NextRefreshStatus]_vars

----------------------------------------------------------------------------
(* Claims *)

AllRetryable == \A i \in 1..Len(r_outcomes) : r_outcomes[i] \in RetryableErrors

\* C4: with max_attempts = n >= 1 and a function that raises a retryable
\* exception on every call, the function is invoked exactly n times and the
\* wrapper then raises RetryError: never more than n invocations, RetryError
\* only after exactly n failed ones, and such a run ends in nothing else.
C4_RetryBound ==
  r_max >= 1 =>
    /\ Len(r_outcomes) <= r_max
    /\ r_pc = "raised_retry" => (Len(r_outcomes) = r_max /\ AllRetryable)
    /\ (AllRetryable /\ r_pc \notin {"loop", "off"}) => r_pc = "raised_retry"

C4_Witness ==
  r_pc = "raised_retry" /\ r_max = MaxAttempts /\ Len(r_outcomes) = MaxAttempts

\* C1: at most one caller is inside the body guarded by file_lock on the
\* shared mirror's lock file at any time.
C1_LockExclusive ==
  Cardinality({p \in Callers : s_pc[p] \in InLockBody}) <= 1

\* C5: a sync that begins when the workspace already holds the upstream
\* content, with no upstream commit until it returns, returns changed = false
\* and leaves the workspace content as it was.
C5_SyncIdempotent ==
  \A p \in Callers :
    (s_pc[p] = "done" /\ s_callfresh[p] /\ ~s_exc[p]) =>
      (s_result[p] = FALSE /\ s_ws[s_dev[p]] = s_upstream)

\* C2: when work_dir exists on entry and the body raises, then on exit
\* work_dir exists with the content it had on entry and the caller gets
\* AtomicOperationError.
C2_RollbackRestores ==
  (a_pc = "done" /\ a_bodyraised /\ a_arg /\ a_entry # 0) =>
    (a_work = a_entry /\ a_err = "AtomicOperationError")

RECURSIVE MostRecent(_, _)
\* the k largest timestamps of S
MostRecent(S, k) ==
  IF S = {} \/ k = 0 THEN {}
  ELSE LET m == CHOOSE x \in S : \A y \in S : y <= x
       IN {m} \cup MostRecent(S \ {m}, k - 1)

BackupAtRest == b_pc \in {"idle", "ret"}

LiveFor(d) == {q \in p_alive : q.dev = d}
C7_OnePerDevice ==
  /\ [](\A d \in Devices : Cardinality(LiveFor(d)) <= 1)
  /\ [][\A q \in p_alive' \ p_alive : p_running[q.dev].pid = 0]_vars

\* More processes were spawned than there are devices, and each device has
\* its one live, registered controller
C7_Witness ==
  /\ p_nextpid - 1 > Cardinality(Devices)
  /\ \A d \in Devices : LiveFor(d) = {[pid |-> p_running[d].pid, dev |-> d]}

(* C8: no entry observed dead during a pass is still registered at the end   *)
(* of that pass, and a replacement is never spawned for a device while an    *)
(* entry whose process has exited is still registered for it.                *)
C8_ReapBeforeRestart ==
  /\ [](p_pc = "end" => \A o \in p_observed : p_running[o.dev].pid # o.pid)
  /\ [][\A q \in p_alive' \ p_alive :
          ~(/\ p_running[q.dev].pid # 0
            /\ \A r \in p_alive : r.pid # p_running[q.dev].pid)]_vars

\* A pass ends having reaped a dead controller and started its replacement
C8_Witness ==
  /\ p_pc = "end"
  /\ \E o \in p_observed :
       /\ p_running[o.dev].pid > o.pid
       /\ [pid |-> p_running[o.dev].pid, dev |-> o.dev] \in p_alive

(* C9: at the end of a pass in which no start or stop failed, the devices in *)
(* running_processes are exactly the devices the pass's registry poll        *)
(* returned, and each stored token equals the polled token of its device.    *)
C9_PassReconciles ==
  (p_pc = "end" /\ ~p_failed) =>
     /\ Registered(p_running) = Configured(p_current)
     /\ \A d \in Registered(p_running) : p_running[d].token = p_current[d]

\* A pass without failures ends having stopped the controller of a removed
\* device and restarted the controller of a device whose token changed
C9_Witness ==
  /\ p_pc = "end" /\ ~p_failed
  /\ \E d \in p_stopped : p_current[d] = 0 /\ p_running[d].pid = 0
  /\ \E d \in p_stopped : p_current[d] # 0 /\ p_running[d].token = p_current[d]

(* C10: a stop call that returns without an error and without a failed       *)
(* registry write leaves the device OFFLINE in the registry, including when  *)
(* no controller was running for that device.                                *)
C10_StopMarksOffline ==
  (/\ m_last.op \in {"mgr_stop", "api_stop"}
   /\ m_result \in {"stopped", "not_running"}
   /\ ~m_dbfail)
    => m_status[m_last.dev] = "OFFLINE"

(* C11 as stated: a stop of a device that has an entry closes the log files, *)
(* terminates, waits, kills only after a timed-out wait, then removes the    *)
(* workspace, in this order; after it returns the workspace does not exist   *)
(* and the device has no entry.                                              *)
StopOrder(timedout, hadwork) ==
  <<"close_logs", "terminate", "wait">>
    \o (IF timedout THEN <<"kill">> ELSE <<>>)
    \o (IF hadwork THEN <<"rmtree">> ELSE <<>>)
StopReturned == k_pc = "returned" /\ k_events # <<>>
C12_AlreadyRunningDistinct ==
  k_seen["already"] \cap (k_seen["fresh"] \cup k_seen["error"]) = {}

(* C13: when a refresh pulled a commit that failed verification, the         *)
(* workspace content is what it was before the update and the device's       *)
(* registry status ends as ERROR.                                            *)
C13_VerifyFailureMarksError ==
  (f_pc \in {"returned", "failed"} /\ g_verified = "failed") =>
    /\ b_ws.content = g_before.content
    /\ f_status = "ERROR"

(* C14: in with_retries(max_attempts = n, delay = d) the wait after the k-th *)
(* failed attempt, k < n, is d * 2^(k-1); there is no wait after the n-th;   *)
(* and the RetryError carries the exception of the n-th attempt.             *)
C14_Backoff ==
  r_max >= 1 =>
    /\ \A k \in 1..Len(r_waits) :
         /\ r_outcomes[k] \in RetryableErrors
         /\ r_waits[k] = r_delay * (2 ^ (k - 1))
    /\ Len(r_waits) = Min(r_attempt, r_max - 1)
    /\ r_pc = "raised_retry" =>
         /\ Len(r_waits) = r_max - 1
         /\ r_last = r_outcomes[r_max]

\* MaxAttempts attempts failed, the last with another exception than the first
C14_Witness ==
  /\ r_pc = "raised_retry" /\ r_max = MaxAttempts /\ r_delay = MaxDelay
  /\ Len(r_waits) = MaxAttempts - 1
  /\ r_outcomes[1] # r_outcomes[r_max] /\ r_last = r_outcomes[r_max]

(* C15: whenever a body guarded by file_lock exits, normally or by raising,  *)
(* no lock file is on disk when the exit propagates, and once every holder   *)
(* has left its body the only lock file that can remain is one whose holder  *)
(* was killed.                                                               *)
Holding(p) == s_pc[p] \in InLockBody \cup {"release"}
C16_TimeoutLeavesLock ==
  [][\A p \in Callers :
       /\ (s_pc[p] = "poll" /\ LockFileExists /\ s_waited[p] > LockTimeoutPolls)
            => (s_pc'[p] \in {"poll", "done", "idle"} /\ s_waited'[p] <= s_waited[p])
       /\ (s_pc[p] = "poll" /\ s_pc'[p] = "done")
            => /\ s_lock' = s_lock /\ s_lock # "none"
               /\ ~s_acq'[p] /\ s_exc'[p] /\ ~s_changed'[p] /\ ~s_result'[p]
               /\ <<s_gitdir, s_head, s_remote, s_ws, s_regsha>>'
                    = <<s_gitdir, s_head, s_remote, s_ws, s_regsha>>]_vars

\* A caller timed out while another caller is inside the guarded body
C16_Witness ==
  \E p, q \in Callers :
    /\ s_pc[p] = "done" /\ s_exc[p] /\ ~s_acq[p] /\ s_waited[p] > LockTimeoutPolls
    /\ s_lock = q /\ s_pc[q] \in InLockBody

(* C17: once a holder was killed and its lock file stayed on disk, a later   *)
(* acquire eventually succeeds.                                              *)
C17_StaleLockReclaimed ==
  (s_lock = "stale") ~> (\E p \in Callers : s_pc[p] \in InLockBody)

(* C18: when the body raised, the caller gets AtomicOperationError exactly   *)
(* when the rollback did not fail, and another exception type when it did.   *)
C18_RollbackFailureDistinct ==
  (a_pc = "done" /\ a_bodyraised) =>
    ((a_err = "AtomicOperationError") <=> (a_rollback # "failed"))

(* C19: every step of a sync that reads or writes the shared mirror (the git *)
(* commands, rev-parse, and the copy of mirror files towards the workspace)  *)
(* is taken by a caller that is inside the body guarded by the file lock.    *)
MirrorAccess(p) ==
  \/ s_pc[p] \in {"config", "fetch", "reset", "clone", "revparse"} /\ s_pc'[p] # s_pc[p]
  \/ s_pc[p] = "stage" /\ s_temp'[p] # s_temp[p]
C19_MirrorAccessUnderLock ==
  [][\A p \in Callers : MirrorAccess(p) => s_pc[p] \in InLockBody]_vars

(* C20: when the copy into the workspace fails, the workspace is left with  *)
(* its pre-sync content: a failure before the old destination is removed     *)
(* leaves the workspace as it is, and a failure after the caller removed it  *)
(* (and nobody has written it since) puts back the content that was removed. *)
CopyFails(p) ==
  s_pc[p] \in {"stage", "remove", "move"} /\ s_pc'[p] = "done" /\ s_exc'[p]
C20_CopyFailureRestores ==
  [][\A p \in Callers :
       CopyFails(p) =>
         s_ws'[s_dev[p]] = (IF s_pc[p] = "move" /\ s_ws[s_dev[p]] = 0
                            THEN s_old[p] ELSE s_ws[s_dev[p]])]_vars

(* C21: when the mirror holds no git metadata (its .git is absent or a bare   *)
(* directory), the branch a caller takes after acquiring the lock is the      *)
(* clone branch.                                                              *)
C21_CloneBranchTaken ==
  [][\A p \in Callers :
       (s_pc[p] = "branch" /\ s_pc'[p] # "branch" /\ s_gitdir # "repo")
         => s_pc'[p] = "clone"]_vars

VerifyReturned == v_pc \in {"returned", "synced", "over"}

CheckFails ==
  \/ ~v_gitdir
  \/ v_status # "ok"
  \/ RepoType(v_tree) # "generic" /\ ~v_readable
  \/ RepoType(v_tree) = "web" /\ v_tree.cfg = "invalid"

C25_NullOnlyWithoutWorkspace ==
  b_pc = "ret" => (b_path = 0 <=> b_ws.content = 0)

RestoreReturnedTrue == g_pc = "restoring" /\ g_restored = "ok"

C27_PendingUpdateKept ==
  (u_pc = "sleep" /\ u_known = u_github) => u_local = u_github

(* C28: an operation called with a malformed device ID fails fast: the       *)
(* caller gets the validation error after one validation, with no sleep and  *)
(* no registry write.                                                        *)
C28_InvalidIdFailsFast ==
  (i_pc = "raised" /\ ~MatchesDeviceId(i_id)) =>
    /\ i_err = "ValueError"
    /\ i_calls = 1 /\ i_slept = 0 /\ i_writes = 0

(* C29: every write that changes the devices table changes the row of one    *)
(* device only and leaves that row's updated_at at the time of the write.    *)
C29_WritesStampUpdatedAt ==
  [][\A d \in Devices :
       w_rows'[d] # w_rows[d] =>
         /\ \A e \in Devices \ {d} : w_rows'[e] = w_rows[e]
         /\ w_rows'[d].updated_at = w_now]_vars

\* C30: in each pass of the monitor loop the steps run in the order change
\* check, UPDATING write, download, copy, commit-SHA recording, final status
\* write; when the loop sleeps after an UPDATING write the last write of the
\* pass is ONLINE or ERROR, ONLINE exactly when the commit was recorded, and
\* the registry status is not UPDATING at a sleep or at a poll.
StepRank(e) ==
  CASE e = "check" -> 1
    [] e = "UPDATING" -> 2
    [] e = "download" -> 3
    [] e = "copy" -> 4
    [] e = "record" -> 5
    [] OTHER -> 6

EventsOf(seq) == {seq[i] : i \in 1..Len(seq)}

ReplacingWorkspace(p) == s_pc[p] = "move"

C31_WorkspaceSingleWriter ==
  \A p, q \in Callers :
    (p # q /\ s_dev[p] = s_dev[q]) => ~(ReplacingWorkspace(p) /\ ReplacingWorkspace(q))

\* C32: of the start requests made for one device with no stop in between,
\* at most one is answered as started; every other one is answered as
\* already running.
C32_SecondStartRejected ==
  \A r1, r2 \in StartRequests :
    (q_answer[r1] = "started" /\ q_answer[r2] = "started") => r1 = r2

\* C33: one call of force_refresh executes the body of clone_or_pull_repo at
\* most max_attempts = 3 times in total.
C33_RefreshBodiesBounded == f_bodies <= SyncMaxAttempts

\* C34: a reconciliation pass whose registry poll failed stops no running
\* controller.
C34_FailedPollStopsNothing ==
  (p_pollfailed /\ p_pc \in {"check", "start", "end"}) => p_stopped = {}

\* C35: when an update pass has succeeded, the commit recorded as last known
\* (marker file and registry) is the commit whose content was installed, also
\* when upstream received a commit during the pass.
C35_RecordedIsInstalled ==
  (c_pc = "sleep" /\ "record" \in EventsOf(c_events)) =>
    (c_known = c_file /\ c_sha = c_file)

\* C36: the last-known commit changes only in a pass in which the download
\* and the copy both succeeded; a pass in which the latest commit was not
\* obtained, or the download or the copy failed, ends with the last-known
\* commit as it was, so the update it saw is still pending.
C36_SavedOnlyAfterInstall ==
  /\ [][c_known' # c_known =>
          /\ c_pc = "record"
          /\ {"check", "download", "copy"} \subseteq EventsOf(c_events)
          /\ c_clone # 0 /\ c_file = c_clone
          /\ c_known' = c_latest]_vars
  /\ []((c_pc = "sleep" /\ "UPDATING" \in EventsOf(c_events)
            /\ "record" \notin EventsOf(c_events))
           => (c_latest # 0 /\ c_known # c_latest))

C36_Witness ==
  /\ c_pc = "sleep"
  /\ c_events = <<"check", "UPDATING", "download", "copy", "ERROR">>
  /\ c_known # c_latest

\* C37: create_backup always terminates: once the pruning loop is entered it
\* is left after finitely many steps, also when removing a directory fails.
C37_PruneTerminates == (x_pc = "loop") ~> (x_pc = "ret")

\* C38 as stated: whenever force_refresh has returned or raised after an
\* UPDATING write, the registry status is ONLINE (returned) or ERROR
\* (raised), whatever made it raise.
RefreshEnded == h_pc \in {"returned", "raised", "failed"}

C39_RunningIffLastStart ==
  /\ [](\A d \in Devices : (d \in m_running) <=> (m_lastok[d] = "start"))
  /\ [][/\ m_running' # m_running =>
            /\ m_result' \in {"started", "stopped"}
            /\ "registry_write" \in m_effects' /\ ~m_dbfail'
            /\ m_status'[m_last'.dev] =
                 (IF m_result' = "started" THEN "ONLINE" ELSE "OFFLINE")
            /\ m_running' = (IF m_result' = "started"
                             THEN m_running \cup {m_last'.dev}
                             ELSE m_running \ {m_last'.dev})
        /\ m_result' = "error" => m_running' = m_running]_vars

\* A stop raised for a device whose last returned call was a start, and the
\* device is still in running_controllers
C39_Witness ==
  /\ m_last.op = "mgr_stop" /\ m_result = "error" /\ m_dbfail
  /\ m_last.dev \in m_running /\ m_lastok[m_last.dev] = "start"
  /\ \E e \in Devices : m_lastok[e] = "stop" /\ e \notin m_running

(* C40: when restore_backup returns False the workspace is exactly what it   *)
(* was before the call.                                                      *)
C40_FailedRestoreKeepsWorkspace ==
  (g_pc = "restoring" /\ g_restored = "failed") => b_ws = g_before

====
